---- MODULE Spec2Model ----
(***************************************************************************)
(* The serial HDF5 backend of openPMD-api: the task queue drained by       *)
(* HDF5IOHandlerImpl::flush and the per-operation handlers, over a small   *)
(* tree of Writable nodes and a model of the HDF5 library and the file     *)
(* system.                                                                 *)
(*                                                                         *)
(* Strings are sequences of one-character strings, so that the name        *)
(* sanitisation of the handlers is computed, not assumed.                  *)
(***************************************************************************)
EXTENDS Integers, Sequences, FiniteSets, TLC

\* ------------------------------------------------------------------ bounds
\* number of tasks enqueued since the queue was last empty
MaxTasks == 3
\* number of file identifiers the HDF5 library hands out before H5Fcreate /
\* H5Fopen fail for lack of resources
MaxHid == 1

\* ------------------------------------------------------------- the tree
\* Three Writables: 1 the file (root, no parent), 2 a group below it,
\* 3 a dataset below the group.  NULL is the absent parent.
NULL == 0
Nodes == {1, 2, 3}
parent == <<NULL, 1, 2>>

\* abstractFilePosition.reset(): the shared_ptr holds nothing
NoPosition == <<"nullptr">>

\* --------------------------------------------------- auxiliary/StringManip
starts_with(s, prefix) ==
    /\ Len(s) >= Len(prefix)
    /\ SubSeq(s, 1, Len(prefix)) = prefix

ends_with(s, suffix) ==
    /\ Len(s) >= Len(suffix)
    /\ SubSeq(s, Len(s) - Len(suffix) + 1, Len(s)) = suffix

\* index of the first occurrence of target in s, 0 when there is none
find(s, target) ==
    LET hits == {i \in 1..(Len(s) - Len(target) + 1) :
                    SubSeq(s, i, i + Len(target) - 1) = target}
    IN  IF hits = {} THEN 0
        ELSE CHOOSE i \in hits : \A j \in hits : i <= j

replace_first(s, target, repl) ==
    LET i == find(s, target)
    IN  IF i = 0 THEN s
        ELSE SubSeq(s, 1, i - 1) \o repl \o SubSeq(s, i + Len(target), Len(s))

\* split(s, "/", false): the non-empty pieces between the delimiters
RECURSIVE split(_, _)
split(s, delimiter) ==
    IF s = <<>> THEN <<>>
    ELSE LET i == find(s, delimiter)
         IN  IF i = 0 THEN <<s>>
             ELSE IF i = 1 THEN split(SubSeq(s, 1 + Len(delimiter), Len(s)), delimiter)
             ELSE <<SubSeq(s, 1, i - 1)>>
                  \o split(SubSeq(s, i + Len(delimiter), Len(s)), delimiter)

Slash == <<"/">>
DotH5 == <<".", "h", "5">>

\* ------------------------------------------------------------ variables
VARIABLES
    m_work,         \* (*m_handler).m_work: the queue of IOTasks
    written,        \* Writable::written, per node
    dirty,          \* Writable::dirty, per node
    position,       \* Writable::abstractFilePosition (location or NoPosition)
    m_fileIDs,      \* std::map< Writable*, hid_t >
    m_openFileIDs,  \* std::set< hid_t >
    accessType,     \* m_handler->accessType
    DEBUG,          \* whether the build defines DEBUG
    instance,       \* how many handlers were destroyed before this one
    dirExists,      \* whether m_handler->directory exists on disk
    disk,           \* file name -> contents of the HDF5 file on disk
    h5_open,        \* HDF5 library: open file identifier -> name and flags
    pc,             \* "idle", "flush" (inside flush()), "crashed",
                    \* "destructor" (inside ~HDF5IOHandlerImpl), "destroyed"
    result,         \* how the last flush() ended: "none", "returned", "raised"
    exc,            \* what the last handler call raised ("none" if nothing)
    backendCalled,  \* whether the last handler call reached the backend
    out,            \* the output slots of the task, as the last handler call
                    \* filled them
    cur,            \* the task handed to the last handler call
    wasWritten,     \* written of the target of cur when the handler was called
    enqueued,       \* tasks enqueued since the queue was last empty
    callQueue,      \* ids of the tasks queued when flush() was called
    callLog,        \* ids of the tasks dispatched by the current flush()
    frame,          \* the handler call that is followed statement by
                    \* statement, and the statement it is at
    handles         \* the native handles that call holds open

\* no handler call is being followed
NoFrame == [handler |-> "none", at |-> 0, done |-> FALSE]

nodeVars == <<written, dirty, position>>
mapVars == <<m_fileIDs, m_openFileIDs>>
storageVars == <<dirExists, disk, h5_open>>
configVars == <<accessType, DEBUG, instance>>
handlerVars == <<exc, backendCalled, out, wasWritten>>
flushVars == <<pc, result, cur, callQueue, callLog>>
traceVars == <<frame, handles>>
vars == <<m_work, nodeVars, mapVars, storageVars, configVars, handlerVars,
          flushVars, enqueued, traceVars>>


\* --------------------------------------------------------- std::map helpers
Range(f) == {f[k] : k \in DOMAIN f}
Put(m, k, v) == [x \in (DOMAIN m) \cup {k} |-> IF x = k THEN v ELSE m[x]]
Erase_nothing(m, k) == m

Erase(m, k) == [x \in (DOMAIN m) \ {k} |-> m[x]]
EmptyMap == [x \in {} |-> 0]

\* ---------------------------------------------- the HDF5 library and disk
\* A file on disk is a set of objects (groups and datasets, named by their
\* absolute path as a sequence of link names; the root group is implicit)
\* and a set of attributes attached to objects.
EmptyFile == [objs |-> {}, atts |-> {}]

\* hid_t values: identifiers handed out by the library are 1..MaxHid, a
\* failed call returns InvalidId, std::map::operator[] default-inserts 0.
InvalidId == -1
Hids == 1..MaxHid

\* an identifier the library has never handed out and the backend does not
\* hold any more; 0 when the library has run out of identifiers
FreshId ==
    LET used == (DOMAIN h5_open) \cup Range(m_fileIDs) \cup m_openFileIDs
        free == Hids \ used
    IN  IF free = {} THEN 0 ELSE CHOOSE i \in free : \A j \in free : i <= j

\* H5Fcreate(name, H5F_ACC_TRUNC, ...): fails when the call faults, when the
\* file is open in this process or when no identifier is left
H5Fcreate(name, fault) ==
    IF fault \/ (\E i \in DOMAIN h5_open : h5_open[i].name = name) \/ FreshId = 0
    THEN InvalidId ELSE FreshId

\* H5Fopen(name, flags, ...): fails when the file does not exist or is open
\* with the other access flag
H5Fopen(name, rdonly, fault) ==
    IF \/ fault
       \/ name \notin DOMAIN disk
       \/ \E i \in DOMAIN h5_open :
             h5_open[i].name = name /\ h5_open[i].rdonly # rdonly
       \/ FreshId = 0
    THEN InvalidId ELSE FreshId

OpenFile(name, rdonly) == [name |-> name, rdonly |-> rdonly]

\* a location in an open file: the identifier of a group, dataset or object
InvalidLoc == [ok |-> FALSE, file |-> <<>>, path |-> <<>>, rdonly |-> TRUE]
Loc(f, p, ro) == [ok |-> TRUE, file |-> f, path |-> p, rdonly |-> ro]

ObjExists(content, p, kind) ==
    IF p = <<>> THEN kind = "group"
    ELSE \E o \in content.objs : o.path = p /\ o.kind = kind

AnyObjExists(content, p) ==
    p = <<>> \/ \E o \in content.objs : o.path = p

\* H5Gopen / H5Dopen / H5Oopen on a file identifier and a path string
H5open(files, id, str, kinds) ==
    IF id \notin DOMAIN h5_open \/ str = <<>> THEN InvalidLoc
    ELSE LET f == h5_open[id].name
             p == split(str, Slash)
         IN  IF f \in DOMAIN files
                /\ \E k \in kinds : ObjExists(files[f], p, k)
             THEN Loc(f, p, h5_open[id].rdonly) ELSE InvalidLoc

\* the same calls relative to an open location
H5openAt(files, loc, str, kinds) ==
    IF ~loc.ok \/ str = <<>> THEN InvalidLoc
    ELSE LET p == loc.path \o split(str, Slash)
         IN  IF loc.file \in DOMAIN files
                /\ \E k \in kinds : ObjExists(files[loc.file], p, k)
             THEN Loc(loc.file, p, loc.rdonly) ELSE InvalidLoc

\* the elements of a dataset nothing was written to (the fill value)
Fill(e) == [i \in 1..e |-> "0"]

\* the elements of a dataset after its extent has changed
Resize(data, e) == [i \in 1..e |-> IF i <= Len(data) THEN data[i] ELSE "0"]

Group(p) ==
    [path |-> p, kind |-> "group", dtype |-> "NONE", extent |-> 0, data |-> <<>>]
Dataset(p, t, e) ==
    [path |-> p, kind |-> "dataset", dtype |-> t, extent |-> e, data |-> Fill(e)]

IsPrefix(p, q) == Len(p) <= Len(q) /\ SubSeq(q, 1, Len(p)) = p

\* H5Gcreate(loc, folder): the new group, or nothing when the location is
\* invalid or read-only or the link exists already
H5Gcreate(files, loc, folder, fault) ==
    LET p == loc.path \o <<folder>>
        ok == /\ ~fault /\ loc.ok /\ ~loc.rdonly
              /\ loc.file \in DOMAIN files
              /\ ~AnyObjExists(files[loc.file], p)
    IN  [files |-> IF ok THEN [files EXCEPT ![loc.file].objs = @ \cup {Group(p)}]
                   ELSE files,
         loc |-> IF ok THEN Loc(loc.file, p, loc.rdonly) ELSE InvalidLoc]

\* the loop of createPath: one H5Gcreate per folder, each inside the group
\* created by the one before; ok when every call returned a valid group
RECURSIVE CreateGroups(_, _, _, _)
CreateGroups(files, loc, folders, fault) ==
    IF folders = <<>> THEN [files |-> files, ok |-> TRUE]
    ELSE LET g == H5Gcreate(files, loc, Head(folders), fault)
             rest == CreateGroups(g.files, g.loc, Tail(folders), FALSE)
         IN  [files |-> rest.files, ok |-> g.loc.ok /\ rest.ok]

\* H5Dcreate(loc, name, type, space): intermediate groups are not created
H5Dcreate(files, loc, name, type, extent, fault) ==
    LET links == split(name, Slash)
        p == loc.path \o links
        ok == /\ ~fault /\ loc.ok /\ ~loc.rdonly
              /\ links # <<>>
              /\ loc.file \in DOMAIN files
              /\ ObjExists(files[loc.file], SubSeq(p, 1, Len(p) - 1), "group")
              /\ ~AnyObjExists(files[loc.file], p)
    IN  [files |-> IF ok
                   THEN [files EXCEPT ![loc.file].objs = @ \cup {Dataset(p, type, extent)}]
                   ELSE files,
         ok |-> ok]

\* H5Dset_extent(dataset, size)
H5Dset_extent(files, loc, extent) ==
    LET ok == loc.ok /\ ~loc.rdonly /\ loc.file \in DOMAIN files
    IN  [files |-> IF ok
                   THEN [files EXCEPT ![loc.file].objs =
                            {IF o.path = loc.path /\ o.kind = "dataset"
                             THEN [o EXCEPT !.extent = extent,
                                            !.data = Resize(@, extent)]
                             ELSE o : o \in @}]
                   ELSE files,
         ok |-> ok]

\* the dataset an identifier of H5Dopen stands for
DatasetAt(files, loc) ==
    CHOOSE o \in files[loc.file].objs : o.path = loc.path /\ o.kind = "dataset"

\* H5Sselect_hyperslab and H5Dwrite / H5Dread: the elements offset + 1 ..
\* offset + extent of the dataset; the selection must lie inside the dataset
Selectable(files, loc, offset, extent) ==
    /\ loc.ok
    /\ loc.file \in DOMAIN files
    /\ \E o \in files[loc.file].objs : o.path = loc.path /\ o.kind = "dataset"
    /\ offset + extent <= DatasetAt(files, loc).extent

\* H5Dwrite(dataset, type, memspace, filespace, property, buffer): the buffer
\* holds the extent elements of val
H5Dwrite(files, loc, offset, extent, val, fault) ==
    LET ok == ~fault /\ ~loc.rdonly /\ Selectable(files, loc, offset, extent)
    IN  [files |-> IF ok
                   THEN [files EXCEPT ![loc.file].objs =
                            {IF o.path = loc.path /\ o.kind = "dataset"
                             THEN [o EXCEPT !.data =
                                     [i \in 1..Len(@) |->
                                        IF offset < i /\ i <= offset + extent
                                        THEN val[i - offset] ELSE @[i]]]
                             ELSE o : o \in @}]
                   ELSE files,
         ok |-> ok]

\* H5Dread(...): the elements read into the buffer
H5Dread(files, loc, offset, extent, fault) ==
    LET ok == ~fault /\ Selectable(files, loc, offset, extent)
    IN  [data |-> IF ok
                  THEN SubSeq(DatasetAt(files, loc).data, offset + 1, offset + extent)
                  ELSE <<>>,
         ok |-> ok]

\* H5Ldelete(loc, name): removes the link and everything reachable through it
H5Ldelete(files, loc, name) ==
    LET p == loc.path \o split(name, Slash)
        ok == /\ loc.ok /\ ~loc.rdonly
              /\ split(name, Slash) # <<>>
              /\ loc.file \in DOMAIN files
              /\ AnyObjExists(files[loc.file], p)
    IN  [files |-> IF ok
                   THEN [files EXCEPT
                            ![loc.file].objs = {o \in @ : ~IsPrefix(p, o.path)},
                            ![loc.file].atts = {a \in @ : ~IsPrefix(p, a.path)}]
                   ELSE files,
         ok |-> ok]

\* H5Adelete(loc, name)
H5Adelete(files, loc, name) ==
    LET ok == /\ loc.ok /\ ~loc.rdonly
              /\ loc.file \in DOMAIN files
              /\ \E a \in files[loc.file].atts : a.path = loc.path /\ a.name = name
    IN  [files |-> IF ok
                   THEN [files EXCEPT ![loc.file].atts =
                            {a \in @ : ~(a.path = loc.path /\ a.name = name)}]
                   ELSE files,
         ok |-> ok]

\* res->second where res may be m_fileIDs.end(): dereferencing end() is
\* undefined; the value read is then any integer, which either is no valid
\* identifier or happens to be one of the open ones
ResSecond(found, key) ==
    IF found THEN {m_fileIDs[key]}
    ELSE {InvalidId} \cup DOMAIN h5_open

\* --------------------------------------------- HDF5Auxiliary (location)
\* concrete_h5_file_position: the locations of the node (of its parent when
\* it has none) and of all its ancestors, concatenated from the root down
RECURSIVE chain(_, _)
chain(pos, w) ==
    IF w = NULL THEN <<>>
    ELSE chain(pos, parent[w])
         \o (IF pos[w] = NoPosition THEN <<>> ELSE pos[w])

concrete_h5_file_position(pos, w) ==
    IF w = NULL THEN <<>>
    ELSE IF pos[w] = NoPosition THEN chain(pos, parent[w])
    ELSE chain(pos, w)

\* ------------------------------------------------------------- handlers
\* Every handler is an action on the node, map and storage variables that
\* also records what it raised (exc) and whether it got as far as a call
\* into the file system or the HDF5 library (backendCalled).

NoOp ==
    /\ exc' = "none"
    /\ backendCalled' = FALSE
    /\ UNCHANGED <<nodeVars, mapVars, storageVars>>

\* the name of the file: the directory is fixed, ".h5" is appended if absent
FileName(name) == IF ends_with(name, DotH5) THEN name ELSE name \o DotH5

\* the body of the if( !writable->written ) of createFile
createFileUnwritten(writable, parameters) ==
    /\ backendCalled' = TRUE
    /\ dirExists' = TRUE
    /\ UNCHANGED dirty
    /\ IF "name" \notin DOMAIN parameters
       THEN /\ exc' = "out_of_range"
            /\ UNCHANGED <<written, position, mapVars, disk, h5_open>>
       ELSE \E fault \in BOOLEAN :
            LET name == FileName(parameters.name)
                id == H5Fcreate(name, fault)
            IN  IF DEBUG /\ ~(id >= 0)
                THEN /\ exc' = "runtime_error"
                     /\ UNCHANGED <<written, position, mapVars, disk, h5_open>>
                ELSE /\ exc' = "none"
                     /\ written' = [written EXCEPT ![writable] = TRUE]
                     /\ position' = [position EXCEPT ![writable] = Slash]
                     /\ m_fileIDs' = Put(m_fileIDs, writable, id)
                     /\ m_openFileIDs' = m_openFileIDs \cup {id}
                     /\ disk' = IF id >= 0 THEN Put(disk, name, EmptyFile)
                                ELSE disk
                     /\ h5_open' = IF id >= 0
                                   THEN Put(h5_open, id, OpenFile(name, FALSE))
                                   ELSE h5_open

\* createFile without its test of writable->written
createFile_unguarded(writable, parameters) ==
    createFileUnwritten(writable, parameters)

createFile(writable, parameters) ==
    IF ~written[writable]
    THEN createFileUnwritten(writable, parameters)
    ELSE NoOp

\* variant: the node is marked written before H5Fopen is tested
openFile_marks_first(writable, parameters) ==
    /\ backendCalled' = TRUE
    /\ UNCHANGED <<dirty, dirExists, disk>>
    /\ IF ~dirExists
       THEN /\ exc' = "no_such_file_error"
            /\ UNCHANGED <<written, position, mapVars, h5_open>>
       ELSE IF "name" \notin DOMAIN parameters
       THEN /\ exc' = "out_of_range"
            /\ UNCHANGED <<written, position, mapVars, h5_open>>
       ELSE \E fault \in BOOLEAN :
            LET name == FileName(parameters.name)
                file_id == H5Fopen(name, accessType = "READ_ONLY", fault)
            IN  /\ written' = [written EXCEPT ![writable] = TRUE]
                /\ position' = [position EXCEPT ![writable] = Slash]
                /\ IF file_id < 0
                   THEN /\ exc' = "no_such_file_error"
                        /\ UNCHANGED <<mapVars, h5_open>>
                   ELSE /\ exc' = "none"
                        /\ m_fileIDs' = Put(Erase(m_fileIDs, writable), writable, file_id)
                        /\ m_openFileIDs' = m_openFileIDs \cup {file_id}
                        /\ h5_open' = Put(h5_open, file_id,
                                           OpenFile(name, accessType = "READ_ONLY"))

\* variant: a missing directory is reported as another error
openFile_other_error(writable, parameters) ==
    /\ backendCalled' = TRUE
    /\ UNCHANGED <<dirty, dirExists, disk>>
    /\ IF ~dirExists
       THEN /\ exc' = "runtime_error"
            /\ UNCHANGED <<written, position, mapVars, h5_open>>
       ELSE IF "name" \notin DOMAIN parameters
       THEN /\ exc' = "out_of_range"
            /\ UNCHANGED <<written, position, mapVars, h5_open>>
       ELSE \E fault \in BOOLEAN :
            LET name == FileName(parameters.name)
                file_id == H5Fopen(name, accessType = "READ_ONLY", fault)
            IN  IF file_id < 0
                THEN /\ exc' = "no_such_file_error"
                     /\ UNCHANGED <<written, position, mapVars, h5_open>>
                ELSE /\ exc' = "none"
                     /\ written' = [written EXCEPT ![writable] = TRUE]
                     /\ position' = [position EXCEPT ![writable] = Slash]
                     /\ m_fileIDs' = Put(Erase(m_fileIDs, writable), writable, file_id)
                     /\ m_openFileIDs' = m_openFileIDs \cup {file_id}
                     /\ h5_open' = Put(h5_open, file_id,
                                        OpenFile(name, accessType = "READ_ONLY"))

openFile(writable, parameters) ==
    /\ backendCalled' = TRUE
    /\ UNCHANGED <<dirty, dirExists, disk>>
    /\ IF ~dirExists
       THEN /\ exc' = "no_such_file_error"
            /\ UNCHANGED <<written, position, mapVars, h5_open>>
       ELSE IF "name" \notin DOMAIN parameters
       THEN /\ exc' = "out_of_range"
            /\ UNCHANGED <<written, position, mapVars, h5_open>>
       ELSE \E fault \in BOOLEAN :
            LET name == FileName(parameters.name)
                file_id == H5Fopen(name, accessType = "READ_ONLY", fault)
            IN  IF file_id < 0
                THEN /\ exc' = "no_such_file_error"
                     /\ UNCHANGED <<written, position, mapVars, h5_open>>
                ELSE /\ exc' = "none"
                     /\ written' = [written EXCEPT ![writable] = TRUE]
                     /\ position' = [position EXCEPT ![writable] = Slash]
                     /\ m_fileIDs' = Put(Erase(m_fileIDs, writable), writable, file_id)
                     /\ m_openFileIDs' = m_openFileIDs \cup {file_id}
                     /\ h5_open' = Put(h5_open, file_id,
                                        OpenFile(name, accessType = "READ_ONLY"))

\* variant: the access type is not tested
DeleteRefused_never == FALSE

\* if( m_handler->accessType == AccessType::READ_ONLY ) throw ..., the
\* first statement of deleteFile, deletePath, deleteDataset, deleteAttribute
DeleteRefused == accessType = "READ_ONLY"

\* variant: the position is kept
Unwrite_keeps_position(writable) ==
    /\ written' = [written EXCEPT ![writable] = FALSE]
    /\ position' = position

\* writable->written = false; writable->abstractFilePosition.reset();
Unwrite(writable) ==
    /\ written' = [written EXCEPT ![writable] = FALSE]
    /\ position' = [position EXCEPT ![writable] = NoPosition]

\* H5Fclose: fails on an identifier that is not open
deleteFile(writable, parameters) ==
    IF DeleteRefused
    THEN /\ exc' = "runtime_error"
         /\ backendCalled' = FALSE
         /\ UNCHANGED <<nodeVars, mapVars, storageVars>>
    ELSE IF written[writable]
    THEN LET ids == IF writable \in DOMAIN m_fileIDs THEN m_fileIDs
                    ELSE Put(m_fileIDs, writable, 0)
             file_id == ids[writable]
             status == IF file_id \in DOMAIN h5_open THEN 0 ELSE -1
             closed == Erase(h5_open, file_id)
         IN  /\ backendCalled' = TRUE
             /\ UNCHANGED <<dirty, dirExists>>
             /\ IF DEBUG /\ ~(status = 0)
                THEN /\ exc' = "runtime_error"
                     /\ m_fileIDs' = ids
                     /\ UNCHANGED <<written, position, m_openFileIDs, disk, h5_open>>
                ELSE IF "name" \notin DOMAIN parameters
                THEN /\ exc' = "out_of_range"
                     /\ m_fileIDs' = ids
                     /\ h5_open' = closed
                     /\ UNCHANGED <<written, position, m_openFileIDs, disk>>
                ELSE LET name == FileName(parameters.name)
                     IN  IF name \notin DOMAIN disk
                         THEN /\ exc' = "runtime_error"
                              /\ m_fileIDs' = ids
                              /\ h5_open' = closed
                              /\ UNCHANGED <<written, position, m_openFileIDs, disk>>
                         ELSE /\ exc' = "none"
                              /\ disk' = Erase(disk, name)
                              /\ Unwrite(writable)
                              /\ m_openFileIDs' = m_openFileIDs \ {file_id}
                              /\ m_fileIDs' = Erase(ids, writable)
                              /\ h5_open' = closed
    ELSE NoOp

\* (sanitizePath_no_slash is the variant that appends no trailing '/')
\* "Sanitize path" of createPath, openPath and deletePath, "Sanitize name" of
\* extendDataset, openDataset and deleteDataset: one leading '/' removed, a
\* trailing '/' appended when there is none
sanitizePath_no_slash(path) ==
    IF starts_with(path, Slash) THEN replace_first(path, Slash, <<>>) ELSE path

sanitizePath(path) ==
    LET p == IF starts_with(path, Slash) THEN replace_first(path, Slash, <<>>)
             ELSE path
    IN  IF ~ends_with(p, Slash) THEN p \o Slash ELSE p

\* the name sanitisation of createDataset
sanitizeDatasetName(name) ==
    LET n == IF starts_with(name, Slash) THEN replace_first(name, Slash, <<>>)
             ELSE name
    IN  IF ends_with(n, Slash) THEN replace_first(n, Slash, <<>>) ELSE n

\* m_fileIDs.find(writable), and m_fileIDs.find(writable->parent) when that
\* fails; then res->second
ResOwnOrParent(writable) ==
    IF writable \in DOMAIN m_fileIDs THEN {m_fileIDs[writable]}
    ELSE ResSecond(parent[writable] \in DOMAIN m_fileIDs, parent[writable])

\* m_fileIDs.find(writable->parent); then res->second
ResParent(writable) ==
    ResSecond(parent[writable] \in DOMAIN m_fileIDs, parent[writable])

\* A value of the domain model with its C++ type, named as the Datatype
\* enumeration names it
Value(t, x) == [type |-> t, val |-> x]

\* Attribute::Attribute(T val): the tag is the Datatype of T
Attribute(v) == [dtype |-> v.type, resource |-> v]

\* variant: the value is handed out whatever type is asked for
get_reinterpret(att, U) == [ok |-> TRUE, val |-> att.resource.val]

\* Attribute::get< U >(): the value when it is of type U, a
\* datatype-mismatch error otherwise
get(att, U) ==
    IF att.resource.type = U THEN [ok |-> TRUE, val |-> att.resource.val]
    ELSE [ok |-> FALSE, val |-> <<>>]

\* "Attribute a(0); a.dtype = d;": the Attribute the handlers build to look
\* up the native type of a dataset; it holds the int 0 under the tag d
LookupAttribute(d) == [Attribute(Value("INT32", 0)) EXCEPT !.dtype = d]

NativeTypes ==
    {"CHAR", "UCHAR", "INT16", "INT32", "INT64", "UINT16", "UINT32", "UINT64",
     "FLOAT", "DOUBLE", "LONG_DOUBLE"}

\* the Datatypes of the sequences, and the Datatype of their elements
VectorTypes == {"VEC_" \o t : t \in NativeTypes \cup {"STRING"}}

ElementType(d) ==
    IF d = "ARR_DBL_7" THEN "DOUBLE"
    ELSE IF d \in VectorTypes
    THEN CHOOSE t \in NativeTypes \cup {"STRING"} : d = "VEC_" \o t
    ELSE d

\* getH5DataType (HDF5Auxiliary) of an Attribute: a switch over its tag; a
\* sequence has the native type of its elements
getH5DataType(att) ==
    IF att.dtype = "BOOL" THEN "HBOOL" ELSE ElementType(att.dtype)

\* getH5DataSpace (HDF5Auxiliary) of an Attribute: scalar, or one dimension
\* of as many elements as the sequence holds
getH5DataSpace(att) ==
    IF att.dtype \in VectorTypes \cup {"ARR_DBL_7"} THEN Len(att.resource.val)
    ELSE 0

createPath(writable, parameters) ==
    IF ~written[writable]
    THEN IF "path" \notin DOMAIN parameters
         THEN /\ exc' = "out_of_range"
              /\ backendCalled' = FALSE
              /\ UNCHANGED <<nodeVars, mapVars, storageVars>>
         ELSE LET path == sanitizePath(parameters.path)
                  pos == IF parent[writable] # NULL THEN parent[writable]
                         ELSE writable
              IN  \E id \in ResSecond(pos \in DOMAIN m_fileIDs, pos),
                     fault \in BOOLEAN :
                  LET node_id == H5open(disk, id,
                                        concrete_h5_file_position(position, pos),
                                        {"group"})
                      r == CreateGroups(disk, node_id, split(path, Slash), fault)
                  IN  /\ backendCalled' = TRUE
                      /\ UNCHANGED <<dirty, dirExists, h5_open, m_openFileIDs>>
                      /\ IF DEBUG /\ ~node_id.ok
                         THEN /\ exc' = "runtime_error"
                              /\ UNCHANGED <<written, position, m_fileIDs, disk>>
                         ELSE IF DEBUG /\ ~r.ok
                         THEN /\ exc' = "runtime_error"
                              /\ disk' = r.files
                              /\ UNCHANGED <<written, position, m_fileIDs>>
                         ELSE /\ exc' = "none"
                              /\ disk' = r.files
                              /\ written' = [written EXCEPT ![writable] = TRUE]
                              /\ position' = [position EXCEPT ![writable] = path]
                              /\ m_fileIDs' = Put(m_fileIDs, writable, id)
    ELSE NoOp

\* the parameters createDataset reads after it has opened the group
DatasetKeys == {"dtype", "extent", "chunkSize", "compression", "transform"}

createDataset(writable, parameters) ==
    IF ~written[writable]
    THEN IF "name" \notin DOMAIN parameters
         THEN /\ exc' = "out_of_range"
              /\ backendCalled' = FALSE
              /\ UNCHANGED <<nodeVars, mapVars, storageVars>>
         ELSE LET name == sanitizeDatasetName(parameters.name)
              IN  \E id \in ResOwnOrParent(writable), fault \in BOOLEAN :
                  LET node_id == H5open(disk, id,
                                        concrete_h5_file_position(position, writable),
                                        {"group"})
                  IN  /\ backendCalled' = TRUE
                      /\ UNCHANGED <<dirty, dirExists, h5_open, m_openFileIDs>>
                      /\ IF DEBUG /\ ~node_id.ok
                         THEN /\ exc' = "runtime_error"
                              /\ UNCHANGED <<written, position, m_fileIDs, disk>>
                         ELSE IF ~(DatasetKeys \subseteq DOMAIN parameters)
                         THEN /\ exc' = "out_of_range"
                              /\ UNCHANGED <<written, position, m_fileIDs, disk>>
                         ELSE LET d == IF parameters.dtype = "UNDEFINED" THEN "BOOL"
                                       ELSE parameters.dtype
                                  a == LookupAttribute(d)
                                  c == H5Dcreate(disk, node_id, name, getH5DataType(a),
                                                 parameters.extent, fault)
                              IN  IF DEBUG /\ ~c.ok
                                  THEN /\ exc' = "runtime_error"
                                       /\ UNCHANGED <<written, position, m_fileIDs, disk>>
                                  ELSE /\ exc' = "none"
                                       /\ disk' = c.files
                                       /\ written' = [written EXCEPT ![writable] = TRUE]
                                       /\ position' = [position EXCEPT ![writable] = name]
                                       /\ m_fileIDs' = Put(m_fileIDs, writable, id)
    ELSE NoOp

\* extendDataset after its test of writable->written
extendDatasetWritten(writable, parameters) ==
    \E id \in ResParent(writable) :
    LET node_id == H5open(disk, id,
                          concrete_h5_file_position(position, parent[writable]),
                          {"group"})
    IN  /\ backendCalled' = TRUE
        /\ UNCHANGED <<nodeVars, mapVars, dirExists, h5_open>>
        /\ IF DEBUG /\ ~node_id.ok
           THEN exc' = "runtime_error" /\ UNCHANGED disk
           ELSE IF "name" \notin DOMAIN parameters
           THEN exc' = "out_of_range" /\ UNCHANGED disk
           ELSE LET name == sanitizePath(parameters.name)
                    dataset_id == H5openAt(disk, node_id, name, {"dataset"})
                IN  IF DEBUG /\ ~dataset_id.ok
                    THEN exc' = "runtime_error" /\ UNCHANGED disk
                    ELSE IF "extent" \notin DOMAIN parameters
                    THEN exc' = "out_of_range" /\ UNCHANGED disk
                    ELSE LET e == H5Dset_extent(disk, dataset_id, parameters.extent)
                         IN  IF DEBUG /\ ~e.ok
                             THEN exc' = "runtime_error" /\ UNCHANGED disk
                             ELSE exc' = "none" /\ disk' = e.files

\* variant: writable->written is not tested
extendDataset_unguarded(writable, parameters) ==
    extendDatasetWritten(writable, parameters)

extendDataset(writable, parameters) ==
    IF ~written[writable]
    THEN /\ exc' = "runtime_error"
         /\ backendCalled' = FALSE
         /\ UNCHANGED <<nodeVars, mapVars, storageVars>>
    ELSE extendDatasetWritten(writable, parameters)

\* variant: the position is stored in the parent as well
openPath_marks_parent(writable, parameters) ==
    \E id \in ResParent(writable) :
    LET node_id == H5open(disk, id,
                          concrete_h5_file_position(position, parent[writable]),
                          {"group"})
    IN  /\ backendCalled' = TRUE
        /\ UNCHANGED <<dirty, m_openFileIDs, storageVars>>
        /\ IF DEBUG /\ ~node_id.ok
           THEN exc' = "runtime_error" /\ UNCHANGED <<written, position, m_fileIDs>>
           ELSE IF "path" \notin DOMAIN parameters
           THEN exc' = "out_of_range" /\ UNCHANGED <<written, position, m_fileIDs>>
           ELSE LET path == sanitizePath(parameters.path)
                    path_id == H5openAt(disk, node_id, path, {"group"})
                IN  IF DEBUG /\ ~path_id.ok
                    THEN /\ exc' = "runtime_error"
                         /\ UNCHANGED <<written, position, m_fileIDs>>
                    ELSE /\ exc' = "none"
                         /\ written' = [written EXCEPT ![writable] = TRUE]
                         /\ position' = [position EXCEPT ![writable] = path,
                                                   ![parent[writable]] = path]
                         /\ m_fileIDs' = Put(Erase(m_fileIDs, writable), writable, id)

openPath(writable, parameters) ==
    \E id \in ResParent(writable) :
    LET node_id == H5open(disk, id,
                          concrete_h5_file_position(position, parent[writable]),
                          {"group"})
    IN  /\ backendCalled' = TRUE
        /\ UNCHANGED <<dirty, m_openFileIDs, storageVars>>
        /\ IF DEBUG /\ ~node_id.ok
           THEN exc' = "runtime_error" /\ UNCHANGED <<written, position, m_fileIDs>>
           ELSE IF "path" \notin DOMAIN parameters
           THEN exc' = "out_of_range" /\ UNCHANGED <<written, position, m_fileIDs>>
           ELSE LET path == sanitizePath(parameters.path)
                    path_id == H5openAt(disk, node_id, path, {"group"})
                IN  IF DEBUG /\ ~path_id.ok
                    THEN /\ exc' = "runtime_error"
                         /\ UNCHANGED <<written, position, m_fileIDs>>
                    ELSE /\ exc' = "none"
                         /\ written' = [written EXCEPT ![writable] = TRUE]
                         /\ position' = [position EXCEPT ![writable] = path]
                         /\ m_fileIDs' = Put(Erase(m_fileIDs, writable), writable, id)

\* the chain of H5Tequal tests of openDataset on the type of the dataset;
\* the native boolean type is an unsigned integer of the size of hbool_t
DatasetDatatypes ==
    {"CHAR", "UCHAR", "INT16", "INT32", "INT64", "FLOAT", "DOUBLE",
     "UINT16", "UINT32", "UINT64", "STRING"}

DatatypeOfDataset(type) ==
    IF type = "HBOOL" THEN {"UCHAR", "UINT32"}
    ELSE IF type \in DatasetDatatypes THEN {type}
    ELSE {}

TypeOfDataset(files, loc) ==
    (CHOOSE o \in files[loc.file].objs : o.path = loc.path /\ o.kind = "dataset").dtype

ExtentOfDataset(files, loc) ==
    (CHOOSE o \in files[loc.file].objs : o.path = loc.path /\ o.kind = "dataset").extent

openDataset(writable, parameters) ==
    \E id \in ResParent(writable) :
    LET node_id == H5open(disk, id,
                          concrete_h5_file_position(position, parent[writable]),
                          {"group"})
    IN  /\ backendCalled' = TRUE
        /\ UNCHANGED <<dirty, m_openFileIDs, storageVars>>
        /\ IF DEBUG /\ ~node_id.ok
           THEN /\ exc' = "runtime_error" /\ out' = EmptyMap
                /\ UNCHANGED <<written, position, m_fileIDs>>
           ELSE IF "name" \notin DOMAIN parameters
           THEN /\ exc' = "out_of_range" /\ out' = EmptyMap
                /\ UNCHANGED <<written, position, m_fileIDs>>
           ELSE LET name == sanitizePath(parameters.name)
                    dataset_id == H5openAt(disk, node_id, name, {"dataset"})
                IN  IF ~dataset_id.ok
                       \/ DatatypeOfDataset(TypeOfDataset(disk, dataset_id)) = {}
                    THEN /\ exc' = "runtime_error" /\ out' = EmptyMap
                         /\ UNCHANGED <<written, position, m_fileIDs>>
                    ELSE \E d \in DatatypeOfDataset(TypeOfDataset(disk, dataset_id)) :
                         IF "dtype" \notin DOMAIN parameters
                         THEN /\ exc' = "out_of_range" /\ out' = EmptyMap
                              /\ UNCHANGED <<written, position, m_fileIDs>>
                         ELSE IF "extent" \notin DOMAIN parameters
                         THEN /\ exc' = "out_of_range"
                              /\ out' = [dtype |-> d]
                              /\ UNCHANGED <<written, position, m_fileIDs>>
                         ELSE /\ exc' = "none"
                              /\ out' = [dtype |-> d,
                                         extent |-> ExtentOfDataset(disk, dataset_id)]
                              /\ written' = [written EXCEPT ![writable] = TRUE]
                              /\ position' = [position EXCEPT ![writable] = name]
                              /\ m_fileIDs' = Put(m_fileIDs, writable, id)

\* variant: written is not tested
deleteLink_unguarded(writable, parameters, key) ==
    IF DeleteRefused
    THEN /\ exc' = "runtime_error"
         /\ backendCalled' = FALSE
         /\ UNCHANGED <<nodeVars, mapVars, storageVars>>
    ELSE IF TRUE
    THEN IF key \notin DOMAIN parameters
         THEN /\ exc' = "out_of_range"
              /\ backendCalled' = FALSE
              /\ UNCHANGED <<nodeVars, mapVars, storageVars>>
         ELSE \E id \in ResOwnOrParent(writable) :
              LET node_id == H5open(disk, id,
                                    concrete_h5_file_position(position, parent[writable]),
                                    {"group"})
              IN  /\ backendCalled' = TRUE
                  /\ UNCHANGED <<dirty, m_openFileIDs, dirExists, h5_open>>
                  /\ IF DEBUG /\ ~node_id.ok
                     THEN /\ exc' = "runtime_error"
                          /\ UNCHANGED <<written, position, m_fileIDs, disk>>
                     ELSE IF position[writable] = NoPosition
                     THEN /\ exc' = "crash"
                          /\ UNCHANGED <<written, position, m_fileIDs, disk>>
                     ELSE LET path == sanitizePath(parameters[key]) \o position[writable]
                              l == H5Ldelete(disk, node_id, path)
                          IN  IF DEBUG /\ ~l.ok
                              THEN /\ exc' = "runtime_error"
                                   /\ UNCHANGED <<written, position, m_fileIDs, disk>>
                              ELSE /\ exc' = "none"
                                   /\ disk' = l.files
                                   /\ Unwrite(writable)
                                   /\ m_fileIDs' = Erase(m_fileIDs, writable)
    ELSE NoOp

\* static_cast< HDF5FilePosition* >(abstractFilePosition.get())->location
\* of deletePath and deleteDataset: a null pointer is dereferenced when the
\* node has no position
deleteLink(writable, parameters, key) ==
    IF DeleteRefused
    THEN /\ exc' = "runtime_error"
         /\ backendCalled' = FALSE
         /\ UNCHANGED <<nodeVars, mapVars, storageVars>>
    ELSE IF written[writable]
    THEN IF key \notin DOMAIN parameters
         THEN /\ exc' = "out_of_range"
              /\ backendCalled' = FALSE
              /\ UNCHANGED <<nodeVars, mapVars, storageVars>>
         ELSE \E id \in ResOwnOrParent(writable) :
              LET node_id == H5open(disk, id,
                                    concrete_h5_file_position(position, parent[writable]),
                                    {"group"})
              IN  /\ backendCalled' = TRUE
                  /\ UNCHANGED <<dirty, m_openFileIDs, dirExists, h5_open>>
                  /\ IF DEBUG /\ ~node_id.ok
                     THEN /\ exc' = "runtime_error"
                          /\ UNCHANGED <<written, position, m_fileIDs, disk>>
                     ELSE IF position[writable] = NoPosition
                     THEN /\ exc' = "crash"
                          /\ UNCHANGED <<written, position, m_fileIDs, disk>>
                     ELSE LET path == sanitizePath(parameters[key]) \o position[writable]
                              l == H5Ldelete(disk, node_id, path)
                          IN  IF DEBUG /\ ~l.ok
                              THEN /\ exc' = "runtime_error"
                                   /\ UNCHANGED <<written, position, m_fileIDs, disk>>
                              ELSE /\ exc' = "none"
                                   /\ disk' = l.files
                                   /\ Unwrite(writable)
                                   /\ m_fileIDs' = Erase(m_fileIDs, writable)
    ELSE NoOp

deletePath(writable, parameters) == deleteLink(writable, parameters, "path")

deleteDataset(writable, parameters) == deleteLink(writable, parameters, "name")

\* variant: the node is reset as by the other delete handlers
deleteAttribute_unwrites(writable, parameters) ==
    IF DeleteRefused
    THEN /\ exc' = "runtime_error"
         /\ backendCalled' = FALSE
         /\ UNCHANGED <<nodeVars, mapVars, storageVars>>
    ELSE IF written[writable]
    THEN IF "name" \notin DOMAIN parameters
         THEN /\ exc' = "out_of_range"
              /\ backendCalled' = FALSE
              /\ UNCHANGED <<nodeVars, mapVars, storageVars>>
         ELSE \E id \in ResOwnOrParent(writable) :
              LET node_id == H5open(disk, id,
                                    concrete_h5_file_position(position, writable),
                                    {"group", "dataset"})
                  a == H5Adelete(disk, node_id, parameters.name)
              IN  /\ backendCalled' = TRUE
                  /\ Unwrite(writable)
                  /\ m_fileIDs' = Erase(m_fileIDs, writable)
                  /\ UNCHANGED <<dirty, m_openFileIDs, dirExists, h5_open>>
                  /\ IF DEBUG /\ ~(node_id.ok /\ a.ok)
                     THEN exc' = "runtime_error" /\ UNCHANGED disk
                     ELSE exc' = "none" /\ disk' = a.files
    ELSE NoOp

deleteAttribute(writable, parameters) ==
    IF DeleteRefused
    THEN /\ exc' = "runtime_error"
         /\ backendCalled' = FALSE
         /\ UNCHANGED <<nodeVars, mapVars, storageVars>>
    ELSE IF written[writable]
    THEN IF "name" \notin DOMAIN parameters
         THEN /\ exc' = "out_of_range"
              /\ backendCalled' = FALSE
              /\ UNCHANGED <<nodeVars, mapVars, storageVars>>
         ELSE \E id \in ResOwnOrParent(writable) :
              LET node_id == H5open(disk, id,
                                    concrete_h5_file_position(position, writable),
                                    {"group", "dataset"})
                  a == H5Adelete(disk, node_id, parameters.name)
              IN  /\ backendCalled' = TRUE
                  /\ UNCHANGED <<nodeVars, mapVars, dirExists, h5_open>>
                  /\ IF DEBUG /\ ~(node_id.ok /\ a.ok)
                     THEN exc' = "runtime_error" /\ UNCHANGED disk
                     ELSE exc' = "none" /\ disk' = a.files
    ELSE NoOp

\* An attribute in a file: the object it hangs on, its name, its HDF5 type,
\* its dataspace (dims = 0: scalar, n > 0: one dimension of n elements,
\* -1: more than one dimension) and its value, the sequence of its elements.
Att(p, n, t, d, v) == [path |-> p, name |-> n, type |-> t, dims |-> d, value |-> v]

\* the two chains of tests of readAttribute on the dataspace and the type
\* of the attribute: the Datatype of the Attribute that is built, or the
\* exception that is thrown
ReadAttributeType(att) ==
    IF att.dims = 0 \/ att.dims = 1
    THEN IF att.type \in NativeTypes THEN [dtype |-> att.type, exc |-> "none"]
         ELSE IF att.type = "STRING" THEN [dtype |-> "STRING", exc |-> "none"]
         ELSE IF att.type = "ENUM_BOOL" THEN [dtype |-> "BOOL", exc |-> "none"]
         ELSE IF att.type \in {"ENUM_OTHER", "COMPOUND"}
         THEN [dtype |-> "UNDEFINED", exc |-> "unsupported_data_error"]
         ELSE [dtype |-> "UNDEFINED", exc |-> "runtime_error"]
    ELSE IF att.dims = -1 THEN [dtype |-> "UNDEFINED", exc |-> "runtime_error"]
    ELSE IF att.type = "DOUBLE" /\ att.dims = 7 /\ att.name = "unitDimension"
         THEN [dtype |-> "ARR_DBL_7", exc |-> "none"]
    ELSE IF att.type \in NativeTypes
         THEN [dtype |-> "VEC_" \o att.type, exc |-> "none"]
    ELSE IF att.type = "STRING" THEN [dtype |-> "VEC_STRING", exc |-> "none"]
    ELSE [dtype |-> "UNDEFINED", exc |-> "runtime_error"]

readAttribute(writable, parameters) ==
    \E id \in ResOwnOrParent(writable) :
    LET obj_id == H5open(disk, id,
                         concrete_h5_file_position(position, writable),
                         {"group", "dataset"})
    IN  /\ backendCalled' = TRUE
        /\ UNCHANGED <<nodeVars, mapVars, storageVars>>
        /\ IF DEBUG /\ ~obj_id.ok
           THEN exc' = "runtime_error" /\ out' = EmptyMap
           ELSE IF "name" \notin DOMAIN parameters
           THEN exc' = "out_of_range" /\ out' = EmptyMap
           ELSE LET found == IF obj_id.ok
                             THEN {a \in disk[obj_id.file].atts :
                                      a.path = obj_id.path /\ a.name = parameters.name}
                             ELSE {}
                IN  IF found = {}
                    THEN /\ exc' = IF DEBUG THEN "runtime_error" ELSE "length_error"
                         /\ out' = EmptyMap
                    ELSE LET att == CHOOSE a \in found : TRUE
                             a == ReadAttributeType(att)
                         IN  IF a.exc # "none"
                             THEN exc' = a.exc /\ out' = EmptyMap
                             ELSE IF "dtype" \notin DOMAIN parameters
                             THEN exc' = "out_of_range" /\ out' = EmptyMap
                             ELSE IF "resource" \notin DOMAIN parameters
                             THEN exc' = "out_of_range" /\ out' = [dtype |-> a.dtype]
                             ELSE /\ exc' = "none"
                                  /\ out' = [dtype |-> a.dtype, resource |-> att.value]

\* H5Aexists(loc, name) == 0: the location is valid and holds no attribute
\* of this name (a negative answer, for an invalid location, is not 0)
H5Aabsent(files, loc, name) ==
    /\ loc.ok
    /\ loc.file \in DOMAIN files
    /\ ~\E a \in files[loc.file].atts : a.path = loc.path /\ a.name = name

\* H5Acreate(loc, name, type, space): the attribute, its value not yet set
H5Acreate(files, loc, name, type, dims, fault) ==
    LET ok == ~fault /\ ~loc.rdonly /\ H5Aabsent(files, loc, name)
    IN  [files |-> IF ok
                   THEN [files EXCEPT ![loc.file].atts =
                            @ \cup {Att(loc.path, name, type, dims, <<>>)}]
                   ELSE files,
         ok |-> ok]

\* H5Awrite(attribute, type, buffer) on the attribute of this name: the
\* buffer holds the elements of val.  The attribute keeps the type and the
\* dataspace it was created with; a buffer of another type or of another
\* number of elements is converted or read past its end, and what is then
\* stored is not the value (stored here as no elements)
H5Awrite(files, loc, name, type, dims, val, fault) ==
    LET ok == /\ ~fault /\ loc.ok /\ ~loc.rdonly
              /\ loc.file \in DOMAIN files
              /\ \E a \in files[loc.file].atts : a.path = loc.path /\ a.name = name
    IN  [files |-> IF ok
                   THEN [files EXCEPT ![loc.file].atts =
                            {IF a.path = loc.path /\ a.name = name
                             THEN [a EXCEPT !.value =
                                     IF a.type = type /\ a.dims = dims
                                     THEN val ELSE <<>>]
                             ELSE a : a \in @}]
                   ELSE files,
         ok |-> ok]

\* the parameters writeAttribute reads after it has opened the object
AttributeKeys == {"name", "attribute", "dtype"}

writeAttribute(writable, parameters) ==
    \E id \in ResOwnOrParent(writable), fault \in BOOLEAN, wfault \in BOOLEAN :
    LET node_id == H5open(disk, id,
                          concrete_h5_file_position(position, writable),
                          {"group", "dataset"})
    IN  /\ backendCalled' = TRUE
        /\ UNCHANGED <<nodeVars, m_openFileIDs, dirExists, h5_open>>
        /\ IF DEBUG /\ ~node_id.ok
           THEN /\ exc' = "runtime_error"
                /\ UNCHANGED <<m_fileIDs, disk>>
           ELSE IF ~(AttributeKeys \subseteq DOMAIN parameters)
           THEN /\ exc' = "out_of_range"
                /\ UNCHANGED <<m_fileIDs, disk>>
           ELSE LET name == parameters.name
                    att == Attribute(parameters.attribute)
                    dtype == parameters.dtype
                    dataType == IF dtype = "BOOL" THEN "ENUM_BOOL"
                                ELSE getH5DataType(att)
                    dataspace == getH5DataSpace(att)
                    c == IF H5Aabsent(disk, node_id, name)
                         THEN H5Acreate(disk, node_id, name, dataType, dataspace,
                                        fault).files
                         ELSE disk
                    w == H5Awrite(c, node_id, name, dataType, dataspace,
                                  get(att, dtype).val, wfault)
                IN  IF dtype \in {"UNDEFINED", "DATATYPE"}
                    THEN /\ exc' = "runtime_error"
                         /\ disk' = c
                         /\ UNCHANGED m_fileIDs
                    ELSE IF ~get(att, dtype).ok
                    THEN /\ exc' = "datatype_mismatch"
                         /\ disk' = c
                         /\ UNCHANGED m_fileIDs
                    ELSE IF DEBUG /\ ~w.ok
                    THEN /\ exc' = "runtime_error"
                         /\ disk' = c
                         /\ UNCHANGED m_fileIDs
                    ELSE /\ exc' = "none"
                         /\ disk' = w.files
                         /\ m_fileIDs' = Put(m_fileIDs, writable, id)

\* the Datatypes the switches of writeDataset and readDataset transfer
\* variant: every native type is transferred
TransferTypes_all == NativeTypes \cup {"BOOL"}

TransferTypes == (NativeTypes \ {"LONG_DOUBLE"}) \cup {"BOOL"}

\* the parameters writeDataset and readDataset read after H5Dopen
TransferKeys == {"offset", "extent", "data", "dtype"}

\* variant: the node is marked written
writeDataset_marks_written(writable, parameters) ==
    \E id \in ResOwnOrParent(writable), fault \in BOOLEAN :
    LET dataset_id == H5open(disk, id,
                             concrete_h5_file_position(position, writable),
                             {"dataset"})
    IN  /\ backendCalled' = TRUE
        /\ written' = [written EXCEPT ![writable] = TRUE]
        /\ UNCHANGED <<dirty, position, m_openFileIDs, dirExists, h5_open>>
        /\ IF DEBUG /\ ~dataset_id.ok
           THEN /\ exc' = "runtime_error"
                /\ UNCHANGED <<m_fileIDs, disk>>
           ELSE IF ~(TransferKeys \subseteq DOMAIN parameters)
           THEN /\ exc' = "out_of_range"
                /\ UNCHANGED <<m_fileIDs, disk>>
           ELSE LET a == LookupAttribute(parameters.dtype)
                    w == H5Dwrite(disk, dataset_id, parameters.offset,
                                  parameters.extent, parameters.data, fault)
                IN  IF (DEBUG /\ ~w.ok) \/ a.dtype \notin TransferTypes
                    THEN /\ exc' = "runtime_error"
                         /\ UNCHANGED <<m_fileIDs, disk>>
                    ELSE /\ exc' = "none"
                         /\ disk' = w.files
                         /\ m_fileIDs' = Put(m_fileIDs, writable, id)

writeDataset(writable, parameters) ==
    \E id \in ResOwnOrParent(writable), fault \in BOOLEAN :
    LET dataset_id == H5open(disk, id,
                             concrete_h5_file_position(position, writable),
                             {"dataset"})
    IN  /\ backendCalled' = TRUE
        /\ UNCHANGED <<nodeVars, m_openFileIDs, dirExists, h5_open>>
        /\ IF DEBUG /\ ~dataset_id.ok
           THEN /\ exc' = "runtime_error"
                /\ UNCHANGED <<m_fileIDs, disk>>
           ELSE IF ~(TransferKeys \subseteq DOMAIN parameters)
           THEN /\ exc' = "out_of_range"
                /\ UNCHANGED <<m_fileIDs, disk>>
           ELSE LET a == LookupAttribute(parameters.dtype)
                    w == H5Dwrite(disk, dataset_id, parameters.offset,
                                  parameters.extent, parameters.data, fault)
                IN  IF (DEBUG /\ ~w.ok) \/ a.dtype \notin TransferTypes
                    THEN /\ exc' = "runtime_error"
                         /\ UNCHANGED <<m_fileIDs, disk>>
                    ELSE /\ exc' = "none"
                         /\ disk' = w.files
                         /\ m_fileIDs' = Put(m_fileIDs, writable, id)

\* variant: the node is registered as by the write handlers
readDataset_registers(writable, parameters) ==
    \E id \in ResOwnOrParent(writable), fault \in BOOLEAN :
    LET dataset_id == H5open(disk, id,
                             concrete_h5_file_position(position, writable),
                             {"dataset"})
    IN  /\ backendCalled' = TRUE
        /\ m_fileIDs' = Put(m_fileIDs, writable, id)
        /\ UNCHANGED <<nodeVars, m_openFileIDs, storageVars>>
        /\ IF DEBUG /\ ~dataset_id.ok
           THEN exc' = "runtime_error" /\ out' = EmptyMap
           ELSE IF ~(TransferKeys \subseteq DOMAIN parameters)
           THEN exc' = "out_of_range" /\ out' = EmptyMap
           ELSE LET a == LookupAttribute(parameters.dtype)
                    r == H5Dread(disk, dataset_id, parameters.offset,
                                 parameters.extent, fault)
                IN  IF (DEBUG /\ ~r.ok) \/ a.dtype \notin TransferTypes
                    THEN exc' = "runtime_error" /\ out' = EmptyMap
                    ELSE /\ exc' = "none"
                         /\ out' = IF r.ok THEN [data |-> r.data] ELSE EmptyMap

readDataset(writable, parameters) ==
    \E id \in ResOwnOrParent(writable), fault \in BOOLEAN :
    LET dataset_id == H5open(disk, id,
                             concrete_h5_file_position(position, writable),
                             {"dataset"})
    IN  /\ backendCalled' = TRUE
        /\ UNCHANGED <<nodeVars, mapVars, storageVars>>
        /\ IF DEBUG /\ ~dataset_id.ok
           THEN exc' = "runtime_error" /\ out' = EmptyMap
           ELSE IF ~(TransferKeys \subseteq DOMAIN parameters)
           THEN exc' = "out_of_range" /\ out' = EmptyMap
           ELSE LET a == LookupAttribute(parameters.dtype)
                    r == H5Dread(disk, dataset_id, parameters.offset,
                                 parameters.extent, fault)
                IN  IF (DEBUG /\ ~r.ok) \/ a.dtype \notin TransferTypes
                    THEN exc' = "runtime_error" /\ out' = EmptyMap
                    ELSE /\ exc' = "none"
                         /\ out' = IF r.ok THEN [data |-> r.data] ELSE EmptyMap

\* H5Gget_info and H5Gget_objname_by_idx over the links of a group: the
\* names of the objects of one kind directly inside it
Children(files, loc, kind) ==
    {o.path[Len(o.path)] :
        o \in {c \in files[loc.file].objs :
                  /\ c.kind = kind
                  /\ Len(c.path) = Len(loc.path) + 1
                  /\ IsPrefix(loc.path, c.path)}}

\* H5Oget_info and H5Aget_name_by_idx: the names of the attributes of an
\* object
AttributesOf(files, loc) ==
    {a.name : a \in {b \in files[loc.file].atts : b.path = loc.path}}

\* listPaths and listDatasets: the names are pushed onto the vector of the
\* output slot.  Without the checks an invalid group gives no link of the
\* kind asked for, whatever H5Gget_info left in group_info
listLinks(writable, parameters, key, kind) ==
    \E id \in ResOwnOrParent(writable) :
    LET node_id == H5open(disk, id,
                          concrete_h5_file_position(position, writable),
                          {"group"})
    IN  /\ backendCalled' = TRUE
        /\ UNCHANGED <<nodeVars, mapVars, storageVars>>
        /\ IF DEBUG /\ ~node_id.ok
           THEN exc' = "runtime_error" /\ out' = EmptyMap
           ELSE IF key \notin DOMAIN parameters
           THEN exc' = "out_of_range" /\ out' = EmptyMap
           ELSE /\ exc' = "none"
                /\ out' = Put(EmptyMap, key,
                              IF node_id.ok THEN Children(disk, node_id, kind)
                              ELSE {})

listPaths(writable, parameters) ==
    listLinks(writable, parameters, "paths", "group")

listDatasets(writable, parameters) ==
    listLinks(writable, parameters, "datasets", "dataset")

\* listAttributes: without the checks an invalid object leaves num_attrs
\* unset; the loop then runs not at all, or H5Aget_name_by_idx fails and
\* the negative length makes the std::string constructor throw
listAttributes(writable, parameters) ==
    \E id \in ResOwnOrParent(writable) :
    LET node_id == H5open(disk, id,
                          concrete_h5_file_position(position, writable),
                          {"group", "dataset"})
    IN  /\ backendCalled' = TRUE
        /\ UNCHANGED <<nodeVars, mapVars, storageVars>>
        /\ IF DEBUG /\ ~node_id.ok
           THEN exc' = "runtime_error" /\ out' = EmptyMap
           ELSE IF "attributes" \notin DOMAIN parameters
           THEN exc' = "out_of_range" /\ out' = EmptyMap
           ELSE IF node_id.ok
           THEN /\ exc' = "none"
                /\ out' = [attributes |-> AttributesOf(disk, node_id)]
           ELSE \/ exc' = "none" /\ out' = [attributes |-> {}]
                \/ exc' = "length_error" /\ out' = EmptyMap

\* ------------------------------------------------------------- the tasks
\* the file names, path names, dataset names and attribute names the domain
\* model uses
FileNames == {<<"r">>, <<"s", ".", "h", "5">>}
PathNames == {<<"/", "d">>}
DatasetNames == {<<"/", "x">>}
AttNames == {"e", "u"}

Task(o, w, p) == [operation |-> o, writable |-> w, parameter |-> p]

DatasetParameter(n, t) ==
    [name |-> n, dtype |-> t, extent |-> 4, chunkSize |-> 4,
     compression |-> <<>>, transform |-> <<>>]

\* the parameter map without one of its keys
Without(p, key) == [k \in (DOMAIN p) \ {key} |-> p[k]]

FileTasks ==
    {Task(o, 1, [name |-> n]) : o \in {"OPEN_FILE", "DELETE_FILE"}, n \in FileNames}
    \cup {Task("CREATE_FILE", 1, [name |-> <<"r">>]), Task("CREATE_FILE", 1, EmptyMap)}

PathTasks ==
    {Task(o, 2, [path |-> n]) :
        o \in {"CREATE_PATH", "OPEN_PATH", "DELETE_PATH"}, n \in PathNames}
    \cup {Task("CREATE_PATH", 2, EmptyMap)}

DatasetTasks ==
    {Task("CREATE_DATASET", 3, DatasetParameter(n, t)) :
        n \in DatasetNames, t \in {"DOUBLE", "UNDEFINED"}}
    \cup {Task("CREATE_DATASET", 3, Without(DatasetParameter(n, "DOUBLE"), "dtype")) :
            n \in DatasetNames}
    \cup {Task("EXTEND_DATASET", 3, [name |-> n, extent |-> 8]) : n \in DatasetNames}
    \cup {Task("OPEN_DATASET", 3, [name |-> n, dtype |-> "slot", extent |-> "slot"]) :
            n \in DatasetNames}
    \cup {Task("OPEN_DATASET", 3, [name |-> n, dtype |-> "slot"]) : n \in DatasetNames}
    \cup {Task("DELETE_DATASET", 3, [name |-> n]) : n \in DatasetNames}

AttTasks ==
    {Task("READ_ATT", 1, [name |-> n, dtype |-> "slot", resource |-> "slot"]) :
        n \in AttNames}
    \cup {Task("DELETE_ATT", 1, [name |-> "u"])}

TaskInputs == FileTasks \cup PathTasks \cup DatasetTasks \cup AttTasks

\* the attribute values the domain model writes: a scalar, a string, a
\* boolean, sequences of one, two and seven doubles and the array of seven
\* doubles
SevenDoubles == <<"1", "0", "0", "0", "0", "0", "0">>

AttributeValues ==
    {Value("DOUBLE", <<"1.5">>),
     Value("STRING", <<"meters">>),
     Value("BOOL", <<"true">>),
     Value("VEC_DOUBLE", <<"1.5">>),
     Value("VEC_DOUBLE", <<"1.5", "2.5">>),
     Value("VEC_DOUBLE", SevenDoubles),
     Value("ARR_DBL_7", SevenDoubles)}

WrittenAttNames == {"unitDimension", "v"}

AttributeInputs ==
    {Task("CREATE_FILE", 1, [name |-> <<"r">>])}
    \cup {Task("WRITE_ATT", 1, [name |-> n, attribute |-> v, dtype |-> v.type]) :
            n \in WrittenAttNames, v \in AttributeValues}
    \cup {Task("READ_ATT", 1, [name |-> n, dtype |-> "slot", resource |-> "slot"]) :
            n \in WrittenAttNames}

\* the tasks of the end-to-end scenario, in order: a handler creates the
\* file r, in it the path d/ and in that the dataset x of extent 4, writes
\* the attribute u of the dataset and its four elements; a later handler
\* opens the three and reads the elements and the attribute
FourDoubles == <<"1.5", "2.5", "3.5", "4.5">>

TransferParameter(d) ==
    [offset |-> 0, extent |-> 4, dtype |-> "DOUBLE", data |-> d]

WriterTasks ==
    <<Task("CREATE_FILE", 1, [name |-> <<"r">>]),
      Task("CREATE_PATH", 2, [path |-> <<"d", "/">>]),
      Task("CREATE_DATASET", 3, DatasetParameter(<<"x">>, "DOUBLE")),
      Task("WRITE_ATT", 3, [name |-> "u",
                            attribute |-> Value("STRING", <<"meters">>),
                            dtype |-> "STRING"]),
      Task("WRITE_DATASET", 3, TransferParameter(FourDoubles))>>

ReaderTasks ==
    <<Task("OPEN_FILE", 1, [name |-> <<"r">>]),
      Task("OPEN_PATH", 2, [path |-> <<"d", "/">>]),
      Task("OPEN_DATASET", 3, [name |-> <<"x">>, dtype |-> "slot",
                               extent |-> "slot"]),
      Task("READ_DATASET", 3, TransferParameter("slot")),
      Task("READ_ATT", 3, [name |-> "u", dtype |-> "slot", resource |-> "slot"])>>

ScenarioTasks == WriterTasks \o ReaderTasks

\* the tasks of the queue specification
QueueInputs ==
    {Task("CREATE_FILE", 1, [name |-> <<"r">>]),
     Task("OPEN_FILE", 1, [name |-> <<"r">>]),
     Task("CREATE_PATH", 2, [path |-> <<"/", "d">>]),
     Task("CREATE_DATASET", 3, DatasetParameter(<<"/", "x">>, "DOUBLE")),
     Task("EXTEND_DATASET", 3, [name |-> <<"/", "x">>, extent |-> 8]),
     Task("READ_ATT", 1, [name |-> "e", dtype |-> "slot", resource |-> "slot"])}

\* ---------------------------------------------------------------- flush
NoTask == [id |-> 0, operation |-> "none", writable |-> NULL,
           parameter |-> EmptyMap]

Ids(q) == [k \in 1..Len(q) |-> q[k].id]

\* variant: the task at the back of the queue is taken (a stack)
back(q) == q[Len(q)]

\* m_work.front()
front(q) == Head(q)

\* variant: a second pop drops the task behind the one dispatched
popTwo(q) == IF Len(q) >= 2 THEN Tail(Tail(q)) ELSE Tail(q)

\* m_work.pop()
pop(q) == Tail(q)

\* the exceptions the catch clause of flush() catches (to pop the task and
\* rethrow)
\* variant: the catch clause catches nothing
Caught_nothing(e) == FALSE

Caught(e) == e = "unsupported_data_error"

\* the switch over i.operation; operations without output slots leave none
NoOutput == out' = EmptyMap

\* variant: the handlers of LIST_PATHS and LIST_DATASETS are exchanged
Switch_exchanged(i) ==
    CASE i.operation = "CREATE_FILE" ->
            createFile(i.writable, i.parameter) /\ NoOutput
      [] i.operation = "CREATE_PATH" ->
            createPath(i.writable, i.parameter) /\ NoOutput
      [] i.operation = "CREATE_DATASET" ->
            createDataset(i.writable, i.parameter) /\ NoOutput
      [] i.operation = "EXTEND_DATASET" ->
            extendDataset(i.writable, i.parameter) /\ NoOutput
      [] i.operation = "OPEN_FILE" ->
            openFile(i.writable, i.parameter) /\ NoOutput
      [] i.operation = "OPEN_PATH" ->
            openPath(i.writable, i.parameter) /\ NoOutput
      [] i.operation = "OPEN_DATASET" ->
            openDataset(i.writable, i.parameter)
      [] i.operation = "DELETE_FILE" ->
            deleteFile(i.writable, i.parameter) /\ NoOutput
      [] i.operation = "DELETE_PATH" ->
            deletePath(i.writable, i.parameter) /\ NoOutput
      [] i.operation = "DELETE_DATASET" ->
            deleteDataset(i.writable, i.parameter) /\ NoOutput
      [] i.operation = "DELETE_ATT" ->
            deleteAttribute(i.writable, i.parameter) /\ NoOutput
      [] i.operation = "WRITE_DATASET" ->
            writeDataset(i.writable, i.parameter) /\ NoOutput
      [] i.operation = "WRITE_ATT" ->
            writeAttribute(i.writable, i.parameter) /\ NoOutput
      [] i.operation = "READ_DATASET" ->
            readDataset(i.writable, i.parameter)
      [] i.operation = "READ_ATT" ->
            readAttribute(i.writable, i.parameter)
      [] i.operation = "LIST_PATHS" ->
            listDatasets(i.writable, i.parameter)
      [] i.operation = "LIST_DATASETS" ->
            listPaths(i.writable, i.parameter)
      [] i.operation = "LIST_ATTS" ->
            listAttributes(i.writable, i.parameter)

Switch(i) ==
    CASE i.operation = "CREATE_FILE" ->
            createFile(i.writable, i.parameter) /\ NoOutput
      [] i.operation = "CREATE_PATH" ->
            createPath(i.writable, i.parameter) /\ NoOutput
      [] i.operation = "CREATE_DATASET" ->
            createDataset(i.writable, i.parameter) /\ NoOutput
      [] i.operation = "EXTEND_DATASET" ->
            extendDataset(i.writable, i.parameter) /\ NoOutput
      [] i.operation = "OPEN_FILE" ->
            openFile(i.writable, i.parameter) /\ NoOutput
      [] i.operation = "OPEN_PATH" ->
            openPath(i.writable, i.parameter) /\ NoOutput
      [] i.operation = "OPEN_DATASET" ->
            openDataset(i.writable, i.parameter)
      [] i.operation = "DELETE_FILE" ->
            deleteFile(i.writable, i.parameter) /\ NoOutput
      [] i.operation = "DELETE_PATH" ->
            deletePath(i.writable, i.parameter) /\ NoOutput
      [] i.operation = "DELETE_DATASET" ->
            deleteDataset(i.writable, i.parameter) /\ NoOutput
      [] i.operation = "DELETE_ATT" ->
            deleteAttribute(i.writable, i.parameter) /\ NoOutput
      [] i.operation = "WRITE_DATASET" ->
            writeDataset(i.writable, i.parameter) /\ NoOutput
      [] i.operation = "WRITE_ATT" ->
            writeAttribute(i.writable, i.parameter) /\ NoOutput
      [] i.operation = "READ_DATASET" ->
            readDataset(i.writable, i.parameter)
      [] i.operation = "READ_ATT" ->
            readAttribute(i.writable, i.parameter)
      [] i.operation = "LIST_PATHS" ->
            listPaths(i.writable, i.parameter)
      [] i.operation = "LIST_DATASETS" ->
            listDatasets(i.writable, i.parameter)
      [] i.operation = "LIST_ATTS" ->
            listAttributes(i.writable, i.parameter)

\* variant: the task is put at the front of the queue
EnqueueOn_front(inputs) ==
    /\ pc = "idle"
    /\ LET n == IF m_work = <<>> THEN 0 ELSE enqueued
       IN  /\ n < MaxTasks
           /\ \E t \in inputs :
                m_work' = <<[id |-> n + 1,
                             operation |-> t.operation,
                             writable |-> t.writable,
                             parameter |-> t.parameter]>> \o m_work
           /\ enqueued' = n + 1
    /\ result' = "none"
    /\ cur' = NoTask
    /\ callQueue' = <<>>
    /\ callLog' = <<>>
    /\ exc' = "none"
    /\ backendCalled' = FALSE
    /\ out' = EmptyMap
    /\ wasWritten' = FALSE
    /\ UNCHANGED <<pc, nodeVars, mapVars, storageVars, configVars, traceVars>>

\* std::queue::push by the domain model; the ids number the tasks since the
\* queue was last empty.  The record of the last flush() is forgotten.
EnqueueOn(inputs) ==
    /\ pc = "idle"
    /\ LET n == IF m_work = <<>> THEN 0 ELSE enqueued
       IN  /\ n < MaxTasks
           /\ \E t \in inputs :
                m_work' = Append(m_work, [id |-> n + 1,
                                          operation |-> t.operation,
                                          writable |-> t.writable,
                                          parameter |-> t.parameter])
           /\ enqueued' = n + 1
    /\ result' = "none"
    /\ cur' = NoTask
    /\ callQueue' = <<>>
    /\ callLog' = <<>>
    /\ exc' = "none"
    /\ backendCalled' = FALSE
    /\ out' = EmptyMap
    /\ wasWritten' = FALSE
    /\ UNCHANGED <<pc, nodeVars, mapVars, storageVars, configVars, traceVars>>

Enqueue == EnqueueOn(QueueInputs)

\* entry into flush()
FlushCall ==
    /\ pc = "idle"
    /\ pc' = "flush"
    /\ callQueue' = Ids(m_work)
    /\ callLog' = <<>>
    /\ UNCHANGED <<m_work, nodeVars, mapVars, storageVars, configVars, traceVars,
                   handlerVars, result, cur, enqueued>>

\* variant: the exception is swallowed, the task popped and the loop goes on
Catch_continue ==
    IF exc' = "crash"
    THEN /\ pc' = "crashed"
         /\ UNCHANGED <<m_work, result>>
    ELSE /\ m_work' = pop(m_work)
         /\ UNCHANGED <<pc, result>>

\* the catch clause and the pop after the switch; an exception that is not
\* caught leaves flush() with the task still at the front
Catch ==
    IF exc' = "none"
    THEN /\ m_work' = pop(m_work)
         /\ UNCHANGED <<pc, result>>
    ELSE IF exc' = "crash"
    THEN /\ pc' = "crashed"
         /\ UNCHANGED <<m_work, result>>
    ELSE /\ m_work' = IF Caught(exc') THEN pop(m_work) ELSE m_work
         /\ pc' = "idle"
         /\ result' = "raised"

\* one turn of the while loop of flush() on a task of the given operation
Dispatch(op) ==
    /\ pc = "flush"
    /\ m_work # <<>>
    /\ front(m_work).operation = op
    /\ cur' = front(m_work)
    /\ callLog' = Append(callLog, front(m_work).id)
    /\ wasWritten' = written[front(m_work).writable]
    /\ Switch(front(m_work))
    /\ Catch
    /\ UNCHANGED <<configVars, traceVars, enqueued, callQueue>>

Flush_CREATE_FILE == Dispatch("CREATE_FILE")
Flush_CREATE_PATH == Dispatch("CREATE_PATH")
Flush_CREATE_DATASET == Dispatch("CREATE_DATASET")
Flush_EXTEND_DATASET == Dispatch("EXTEND_DATASET")
Flush_OPEN_FILE == Dispatch("OPEN_FILE")
Flush_READ_ATT == Dispatch("READ_ATT")

\* the while condition fails: flush() returns
FlushReturn ==
    /\ pc = "flush"
    /\ m_work = <<>>
    /\ pc' = "idle"
    /\ result' = "returned"
    /\ UNCHANGED <<m_work, nodeVars, mapVars, storageVars, configVars, traceVars,
                   handlerVars, cur, enqueued, callQueue, callLog>>

\* the switch of flush() on one task, without the queue: what a flush() of
\* a queue that holds this one task does to the backend and to the node
CallOn(tasks, op) ==
    /\ pc = "idle"
    /\ \E t \in tasks :
        /\ t.operation = op
        /\ cur' = [id |-> 0, operation |-> t.operation, writable |-> t.writable,
                   parameter |-> t.parameter]
        /\ wasWritten' = written[t.writable]
        /\ Switch(t)
    /\ pc' = IF exc' = "crash" THEN "crashed" ELSE pc
    /\ UNCHANGED <<m_work, configVars, traceVars, enqueued, result, callQueue, callLog>>

Call(op) == CallOn(TaskInputs, op)

Call_CREATE_FILE == Call("CREATE_FILE")
Call_CREATE_PATH == Call("CREATE_PATH")
Call_CREATE_DATASET == Call("CREATE_DATASET")
Call_EXTEND_DATASET == Call("EXTEND_DATASET")
Call_OPEN_FILE == Call("OPEN_FILE")
Call_OPEN_PATH == Call("OPEN_PATH")
Call_OPEN_DATASET == Call("OPEN_DATASET")
Call_DELETE_FILE == Call("DELETE_FILE")
Call_DELETE_PATH == Call("DELETE_PATH")
Call_DELETE_DATASET == Call("DELETE_DATASET")
Call_DELETE_ATT == Call("DELETE_ATT")
Call_READ_ATT == Call("READ_ATT")

\* ------------------------------------------------------------------ Init
\* what the directory holds before the handler is constructed: nothing at
\* all, or a file written earlier by another program: a group d with a
\* dataset x of four doubles, and on the root group a string attribute u,
\* an attribute e of an enumeration type and an attribute c of a compound
\* type
OldFile ==
    [objs |-> {Group(<<<<"d">>>>), Dataset(<<<<"d">>, <<"x">>>>, "DOUBLE", 4)},
     atts |-> {Att(<<>>, "u", "STRING", 0, <<"meters">>),
               Att(<<>>, "e", "ENUM_OTHER", 0, <<"2">>),
               Att(<<>>, "c", "COMPOUND", 0, <<"2">>)}]

InitialDisks ==
    {[dir |-> FALSE, files |-> EmptyMap],
     [dir |-> TRUE, files |-> Put(EmptyMap, <<"r", ".", "h", "5">>, OldFile)]}

Init ==
    /\ m_work = <<>>
    /\ written = [n \in Nodes |-> FALSE]
    /\ dirty = [n \in Nodes |-> TRUE]
    /\ position = [n \in Nodes |-> NoPosition]
    /\ m_fileIDs = EmptyMap
    /\ m_openFileIDs = {}
    /\ accessType \in {"READ_ONLY", "READ_WRITE"}
    /\ DEBUG \in BOOLEAN
    /\ instance = 0
    /\ \E d \in InitialDisks : dirExists = d.dir /\ disk = d.files
    /\ h5_open = EmptyMap
    /\ pc = "idle"
    /\ result = "none"
    /\ exc = "none"
    /\ backendCalled = FALSE
    /\ out = EmptyMap
    /\ wasWritten = FALSE
    /\ cur = NoTask
    /\ enqueued = 0
    /\ callQueue = <<>>
    /\ callLog = <<>>
    /\ frame = NoFrame
    /\ handles = {}

\* the program: the domain model enqueues tasks and calls flush()
Next ==
    \/ Enqueue
    \/ FlushCall
    \/ Flush_CREATE_FILE
    \/ Flush_CREATE_PATH
    \/ Flush_CREATE_DATASET
    \/ Flush_EXTEND_DATASET
    \/ Flush_OPEN_FILE
    \/ Flush_READ_ATT
    \/ FlushReturn

Spec == Init /\ [][Next]_vars

\* the handlers one at a time, on every task of TaskInputs
NextHandlers ==
    \/ Call_CREATE_FILE
    \/ Call_CREATE_PATH
    \/ Call_CREATE_DATASET
    \/ Call_EXTEND_DATASET
    \/ Call_OPEN_FILE
    \/ Call_OPEN_PATH
    \/ Call_OPEN_DATASET
    \/ Call_DELETE_FILE
    \/ Call_DELETE_PATH
    \/ Call_DELETE_DATASET
    \/ Call_DELETE_ATT
    \/ Call_READ_ATT

SpecHandlers == Init /\ [][NextHandlers]_vars

\* the attribute handlers one at a time, on the root group of a new file
\* and on every value of AttributeValues
WriteAtt_CREATE_FILE == CallOn(AttributeInputs, "CREATE_FILE")
WriteAtt_WRITE_ATT == CallOn(AttributeInputs, "WRITE_ATT")
WriteAtt_READ_ATT == CallOn(AttributeInputs, "READ_ATT")

NextAttributes ==
    \/ WriteAtt_CREATE_FILE
    \/ WriteAtt_WRITE_ATT
    \/ WriteAtt_READ_ATT

SpecAttributes == Init /\ [][NextAttributes]_vars

\* a call of the member function of this name; the functions without output
\* slots leave none
Invoke(h, writable, parameters) ==
    CASE h = "createFile" -> createFile(writable, parameters) /\ NoOutput
      [] h = "createPath" -> createPath(writable, parameters) /\ NoOutput
      [] h = "createDataset" -> createDataset(writable, parameters) /\ NoOutput
      [] h = "extendDataset" -> extendDataset(writable, parameters) /\ NoOutput
      [] h = "openFile" -> openFile(writable, parameters) /\ NoOutput
      [] h = "openPath" -> openPath(writable, parameters) /\ NoOutput
      [] h = "openDataset" -> openDataset(writable, parameters)
      [] h = "deleteFile" -> deleteFile(writable, parameters) /\ NoOutput
      [] h = "deletePath" -> deletePath(writable, parameters) /\ NoOutput
      [] h = "deleteDataset" -> deleteDataset(writable, parameters) /\ NoOutput
      [] h = "deleteAttribute" -> deleteAttribute(writable, parameters) /\ NoOutput
      [] h = "writeDataset" -> writeDataset(writable, parameters) /\ NoOutput
      [] h = "writeAttribute" -> writeAttribute(writable, parameters) /\ NoOutput
      [] h = "readDataset" -> readDataset(writable, parameters)
      [] h = "readAttribute" -> readAttribute(writable, parameters)
      [] h = "listPaths" -> listPaths(writable, parameters)
      [] h = "listDatasets" -> listDatasets(writable, parameters)
      [] h = "listAttributes" -> listAttributes(writable, parameters)

\* READ_ATT through the queue, on the attributes of the file written
\* earlier by another program
ReadAttInputs ==
    {Task("OPEN_FILE", 1, [name |-> <<"r">>])}
    \cup {Task("READ_ATT", 1, [name |-> n, dtype |-> "slot", resource |-> "slot"]) :
            n \in {"u", "e", "c"}}

Enqueue_READ_ATT == EnqueueOn(ReadAttInputs)

NextReadAtt ==
    \/ Enqueue_READ_ATT
    \/ FlushCall
    \/ Flush_OPEN_FILE
    \/ Flush_READ_ATT
    \/ FlushReturn

SpecReadAtt == Init /\ [][NextReadAtt]_vars

\* the handlers that transfer data, write and read attributes and list the
\* contents of a node, one at a time, on a file with a group d, a dataset
\* d/x and an attribute u on it
TransferDatatypes == {"DOUBLE", "INT32", "LONG_DOUBLE", "UNDEFINED", "STRING"}

TransferInputs ==
    {Task("CREATE_FILE", 1, [name |-> <<"r">>]),
     Task("CREATE_PATH", 2, [path |-> <<"d", "/">>]),
     Task("CREATE_DATASET", 3, DatasetParameter(<<"x">>, "DOUBLE")),
     Task("WRITE_ATT", 3, [name |-> "u",
                           attribute |-> Value("STRING", <<"meters">>),
                           dtype |-> "STRING"]),
     Task("READ_ATT", 3, [name |-> "u", dtype |-> "slot", resource |-> "slot"]),
     Task("LIST_PATHS", 1, [paths |-> "slot"]),
     Task("LIST_DATASETS", 2, [datasets |-> "slot"]),
     Task("LIST_ATTS", 3, [attributes |-> "slot"])}
    \cup {Task("WRITE_DATASET", 3, [TransferParameter(FourDoubles) EXCEPT !.dtype = t]) :
            t \in TransferDatatypes}
    \cup {Task("READ_DATASET", 3, [TransferParameter("slot") EXCEPT !.dtype = t]) :
            t \in TransferDatatypes}

Transfer_CREATE_FILE == CallOn(TransferInputs, "CREATE_FILE")
Transfer_CREATE_PATH == CallOn(TransferInputs, "CREATE_PATH")
Transfer_CREATE_DATASET == CallOn(TransferInputs, "CREATE_DATASET")
Transfer_WRITE_DATASET == CallOn(TransferInputs, "WRITE_DATASET")
Transfer_WRITE_ATT == CallOn(TransferInputs, "WRITE_ATT")
Transfer_READ_DATASET == CallOn(TransferInputs, "READ_DATASET")
Transfer_READ_ATT == CallOn(TransferInputs, "READ_ATT")
Transfer_LIST_PATHS == CallOn(TransferInputs, "LIST_PATHS")
Transfer_LIST_DATASETS == CallOn(TransferInputs, "LIST_DATASETS")
Transfer_LIST_ATTS == CallOn(TransferInputs, "LIST_ATTS")

NextTransfer ==
    \/ Transfer_CREATE_FILE
    \/ Transfer_CREATE_PATH
    \/ Transfer_CREATE_DATASET
    \/ Transfer_WRITE_DATASET
    \/ Transfer_WRITE_ATT
    \/ Transfer_READ_DATASET
    \/ Transfer_READ_ATT
    \/ Transfer_LIST_PATHS
    \/ Transfer_LIST_DATASETS
    \/ Transfer_LIST_ATTS

SpecTransfer == Init /\ [][NextTransfer]_vars

\* ------------------------------------------------- the end-to-end scenario
\* the domain model enqueues the next task of the scenario: the writer's
\* tasks on the first handler, the reader's on the second
EnqueueScenario ==
    /\ pc = "idle"
    /\ enqueued < Len(ScenarioTasks)
    /\ instance = (IF enqueued < Len(WriterTasks) THEN 0 ELSE 1)
    /\ LET t == ScenarioTasks[enqueued + 1]
       IN  m_work' = Append(m_work, [id |-> enqueued + 1,
                                     operation |-> t.operation,
                                     writable |-> t.writable,
                                     parameter |-> t.parameter])
    /\ enqueued' = enqueued + 1
    /\ UNCHANGED <<nodeVars, mapVars, storageVars, configVars, traceVars, handlerVars,
                   flushVars>>

Flush_OPEN_PATH == Dispatch("OPEN_PATH")
Flush_OPEN_DATASET == Dispatch("OPEN_DATASET")
Flush_WRITE_DATASET == Dispatch("WRITE_DATASET")
Flush_WRITE_ATT == Dispatch("WRITE_ATT")
Flush_READ_DATASET == Dispatch("READ_DATASET")

\* H5Fclose(file)
H5Fclose(open, ids) == [i \in (DOMAIN open) \ ids |-> open[i]]

\* the writer is done: ~HDF5IOHandlerImpl closes every file of m_openFileIDs;
\* the reader constructs a new handler and a new tree of Writables
Restart ==
    /\ pc = "idle"
    /\ instance = 0
    /\ m_work = <<>>
    /\ enqueued = Len(WriterTasks)
    /\ instance' = 1
    /\ h5_open' = H5Fclose(h5_open, m_openFileIDs)
    /\ m_openFileIDs' = {}
    /\ m_fileIDs' = EmptyMap
    /\ written' = [n \in Nodes |-> FALSE]
    /\ dirty' = [n \in Nodes |-> TRUE]
    /\ position' = [n \in Nodes |-> NoPosition]
    /\ UNCHANGED <<m_work, dirExists, disk, accessType, DEBUG, handlerVars,
                   flushVars, enqueued, traceVars>>

\* ~HDF5IOHandlerImpl: H5Fclose on every identifier of m_openFileIDs
Destroy ==
    /\ pc = "idle"
    /\ instance = 0
    /\ instance' = 1
    /\ h5_open' = H5Fclose(h5_open, m_openFileIDs)
    /\ m_openFileIDs' = {}
    /\ UNCHANGED <<m_work, nodeVars, m_fileIDs, dirExists, disk, accessType,
                   DEBUG, handlerVars, flushVars, enqueued, traceVars>>

\* the lifetime of one handler: the file handlers one at a time on every
\* task of FileTasks, then the destructor
Life_CREATE_FILE == instance = 0 /\ CallOn(FileTasks, "CREATE_FILE")
Life_OPEN_FILE == instance = 0 /\ CallOn(FileTasks, "OPEN_FILE")
Life_DELETE_FILE == instance = 0 /\ CallOn(FileTasks, "DELETE_FILE")

NextLifetime ==
    \/ Life_CREATE_FILE
    \/ Life_OPEN_FILE
    \/ Life_DELETE_FILE
    \/ Destroy

SpecLifetime == Init /\ [][NextLifetime]_vars

NextScenario ==
    \/ EnqueueScenario
    \/ FlushCall
    \/ Flush_CREATE_FILE
    \/ Flush_CREATE_PATH
    \/ Flush_CREATE_DATASET
    \/ Flush_WRITE_ATT
    \/ Flush_WRITE_DATASET
    \/ Flush_OPEN_FILE
    \/ Flush_OPEN_PATH
    \/ Flush_OPEN_DATASET
    \/ Flush_READ_DATASET
    \/ Flush_READ_ATT
    \/ FlushReturn
    \/ Restart

SpecScenario == Init /\ [][NextScenario]_vars

\* the 18 operations through the queue, one task of each kind in an order
\* in which every one of them can succeed: the file written earlier is
\* opened, extended, written, read and listed, its contents and the file
\* are deleted, and a new file is created
AllOperations ==
    <<Task("OPEN_FILE", 1, [name |-> <<"r">>]),
      Task("OPEN_PATH", 2, [path |-> <<"/", "d">>]),
      Task("OPEN_DATASET", 3, [name |-> <<"/", "x">>, dtype |-> "slot",
                               extent |-> "slot"]),
      Task("EXTEND_DATASET", 3, [name |-> <<"/", "x">>, extent |-> 8]),
      Task("WRITE_DATASET", 3, TransferParameter(FourDoubles)),
      Task("WRITE_ATT", 3, [name |-> "u",
                            attribute |-> Value("STRING", <<"meters">>),
                            dtype |-> "STRING"]),
      Task("READ_DATASET", 3, TransferParameter("slot")),
      Task("READ_ATT", 3, [name |-> "u", dtype |-> "slot", resource |-> "slot"]),
      Task("LIST_PATHS", 1, [paths |-> "slot"]),
      Task("LIST_DATASETS", 2, [datasets |-> "slot"]),
      Task("LIST_ATTS", 3, [attributes |-> "slot"]),
      Task("DELETE_ATT", 3, [name |-> "u"]),
      Task("DELETE_DATASET", 3, [name |-> <<"/", "x">>]),
      Task("DELETE_PATH", 2, [path |-> <<"/", "d">>]),
      Task("DELETE_FILE", 1, [name |-> <<"r">>]),
      Task("CREATE_FILE", 1, [name |-> <<"r">>]),
      Task("CREATE_PATH", 2, [path |-> <<"/", "d">>]),
      Task("CREATE_DATASET", 3, DatasetParameter(<<"/", "x">>, "DOUBLE"))>>

\* the domain model enqueues the next task of AllOperations
EnqueueAll ==
    /\ pc = "idle"
    /\ enqueued < Len(AllOperations)
    /\ Len(m_work) < MaxTasks
    /\ LET t == AllOperations[enqueued + 1]
       IN  m_work' = Append(m_work, [id |-> enqueued + 1,
                                     operation |-> t.operation,
                                     writable |-> t.writable,
                                     parameter |-> t.parameter])
    /\ enqueued' = enqueued + 1
    /\ UNCHANGED <<nodeVars, mapVars, storageVars, configVars, traceVars, handlerVars,
                   flushVars>>

Flush_DELETE_FILE == Dispatch("DELETE_FILE")
Flush_DELETE_PATH == Dispatch("DELETE_PATH")
Flush_DELETE_DATASET == Dispatch("DELETE_DATASET")
Flush_DELETE_ATT == Dispatch("DELETE_ATT")
Flush_LIST_PATHS == Dispatch("LIST_PATHS")
Flush_LIST_DATASETS == Dispatch("LIST_DATASETS")
Flush_LIST_ATTS == Dispatch("LIST_ATTS")

NextDispatch ==
    \/ EnqueueAll
    \/ FlushCall
    \/ Flush_CREATE_FILE
    \/ Flush_CREATE_PATH
    \/ Flush_CREATE_DATASET
    \/ Flush_EXTEND_DATASET
    \/ Flush_OPEN_FILE
    \/ Flush_OPEN_PATH
    \/ Flush_OPEN_DATASET
    \/ Flush_DELETE_FILE
    \/ Flush_DELETE_PATH
    \/ Flush_DELETE_DATASET
    \/ Flush_DELETE_ATT
    \/ Flush_WRITE_DATASET
    \/ Flush_WRITE_ATT
    \/ Flush_READ_DATASET
    \/ Flush_READ_ATT
    \/ Flush_LIST_PATHS
    \/ Flush_LIST_DATASETS
    \/ Flush_LIST_ATTS
    \/ FlushReturn

SpecDispatch == Init /\ [][NextDispatch]_vars

\* ------------------------------------------------------- Attribute::get
\* the Datatypes of the values an Attribute holds
Datatypes == NativeTypes \cup {"STRING", "BOOL", "ARR_DBL_7"} \cup VectorTypes

\* an Attribute constructed from a value, nothing retrieved from it yet
Constructed(v) ==
    [id |-> 0, operation |-> "GET", writable |-> NULL,
     parameter |-> [attribute |-> v, dtype |-> "none"]]

InitGet ==
    /\ m_work = <<>>
    /\ written = [n \in Nodes |-> FALSE]
    /\ dirty = [n \in Nodes |-> TRUE]
    /\ position = [n \in Nodes |-> NoPosition]
    /\ m_fileIDs = EmptyMap
    /\ m_openFileIDs = {}
    /\ accessType = "READ_WRITE"
    /\ DEBUG = FALSE
    /\ instance = 0
    /\ dirExists = FALSE
    /\ disk = EmptyMap
    /\ h5_open = EmptyMap
    /\ pc = "idle"
    /\ result = "none"
    /\ exc = "none"
    /\ backendCalled = FALSE
    /\ out = EmptyMap
    /\ wasWritten = FALSE
    /\ cur \in {Constructed(v) : v \in AttributeValues}
    /\ enqueued = 0
    /\ callQueue = <<>>
    /\ callLog = <<>>
    /\ frame = NoFrame
    /\ handles = {}

\* att.get< U >() and att.dtype of the Attribute constructed from the value
Get ==
    /\ cur.operation = "GET"
    /\ \E U \in Datatypes :
        LET att == Attribute(cur.parameter.attribute)
            r == get(att, U)
        IN  /\ cur' = [cur EXCEPT !.parameter.dtype = U]
            /\ exc' = IF r.ok THEN "none" ELSE "datatype_mismatch"
            /\ out' = IF r.ok THEN [dtype |-> att.dtype, resource |-> r.val]
                      ELSE [dtype |-> att.dtype]
    /\ UNCHANGED <<m_work, nodeVars, mapVars, storageVars, configVars, traceVars,
                   backendCalled, wasWritten, pc, result, callQueue, callLog,
                   enqueued>>

SpecGet == InitGet /\ [][Get]_vars

\* ------------------------------------------- native handles of one call
\* The statements of a handler that acquire or release a native handle or
\* can leave the handler, in the order of the source:
\*   open h    a native call returns the handle h (or an invalid one)
\*   assert h  ASSERT(h >= 0, ...)
\*   status    ASSERT(status == ..., ...) on the result of a native call
\*   at        parameters.at(key), which throws std::out_of_range
\*   throw e   a throw statement in a branch of the handler
\*   close h   H5?close(h)
Open(h) == [e |-> "open", h |-> h]
AssertOpen(h) == [e |-> "assert", h |-> h]
StatusCheck == [e |-> "status", h |-> "status"]
At(key) == [e |-> "at", h |-> key]
ThrowOf(x) == [e |-> "throw", h |-> x]
Close(h) == [e |-> "close", h |-> h]

Statements(handler) ==
    CASE handler = "openDataset" ->
            <<Open("node_id"), AssertOpen("node_id"), At("name"),
              Open("dataset_id"), AssertOpen("dataset_id"),
              Open("dataset_type"), Open("dataset_space"),
              ThrowOf("runtime_error"),
              At("dtype"), At("extent"),
              Close("dataset_space"), StatusCheck,
              Close("dataset_type"), StatusCheck,
              Close("dataset_id"), StatusCheck,
              Close("node_id"), StatusCheck>>
      [] handler = "writeDataset" ->
            <<Open("dataset_id"), AssertOpen("dataset_id"),
              At("offset"), At("extent"),
              Open("memspace"), Open("filespace"), StatusCheck,
              At("data"), At("dtype"),
              Open("dataType"), AssertOpen("dataType"),
              ThrowOf("runtime_error"), StatusCheck,
              Close("dataType"), StatusCheck,
              Close("filespace"), StatusCheck,
              Close("memspace"), StatusCheck,
              Close("dataset_id"), StatusCheck>>
      [] handler = "readAttribute" ->
            <<Open("obj_id"), AssertOpen("obj_id"), At("name"),
              Open("attr_id"), AssertOpen("attr_id"),
              Open("attr_type"), Open("attr_space"), StatusCheck,
              ThrowOf("unsupported_data_error"), ThrowOf("runtime_error"),
              StatusCheck,
              Close("attr_type"), StatusCheck,
              Close("attr_space"), StatusCheck,
              At("dtype"), At("resource"),
              Close("attr_id"), StatusCheck,
              Close("obj_id"), StatusCheck>>
      [] handler = "listPaths" ->
            <<Open("node_id"), AssertOpen("node_id"), StatusCheck,
              At("paths"),
              Close("node_id"), StatusCheck>>

TracedHandlers == {"openDataset", "writeDataset", "readAttribute", "listPaths"}

\* the statement the call is at
Statement == Statements(frame.handler)[frame.at]

Running(kind) ==
    /\ frame.handler \in TracedHandlers
    /\ ~frame.done
    /\ frame.at <= Len(Statements(frame.handler))
    /\ Statement.e = kind

\* the call goes on to its next statement
Proceed == frame' = [frame EXCEPT !.at = @ + 1] /\ UNCHANGED exc

\* the call is left by an exception; nothing is released on the way out
LeaveBy(e) == frame' = [frame EXCEPT !.done = TRUE] /\ exc' = e

traceFrame ==
    UNCHANGED <<m_work, nodeVars, mapVars, storageVars, configVars,
                backendCalled, out, wasWritten, flushVars, enqueued>>

\* flush() calls a handler
Enter ==
    /\ frame = NoFrame
    /\ pc = "idle"
    /\ \E h \in TracedHandlers : frame' = [handler |-> h, at |-> 1, done |-> FALSE]
    /\ UNCHANGED <<handles, exc>>
    /\ traceFrame

\* H5Gopen, H5Dopen, H5Oopen, H5Aopen, H5?get_type, H5?get_space,
\* H5Screate_simple, getH5DataType: a new handle, or an invalid one
Acquire ==
    /\ Running("open")
    /\ \/ handles' = handles \cup {Statement.h}
       \/ UNCHANGED handles
    /\ Proceed
    /\ traceFrame

\* ASSERT(h >= 0, ...): throws in a build with DEBUG when h is invalid
AssertHandle ==
    /\ Running("assert")
    /\ IF DEBUG /\ Statement.h \notin handles
       THEN LeaveBy("runtime_error")
       ELSE Proceed
    /\ UNCHANGED handles
    /\ traceFrame

\* ASSERT(status == 0, ...): throws in a build with DEBUG when the native
\* call before it has failed
AssertStatus ==
    /\ Running("status")
    /\ \/ DEBUG /\ LeaveBy("runtime_error")
       \/ Proceed
    /\ UNCHANGED handles
    /\ traceFrame

\* parameters.at(key): throws when the task has no such parameter
ParameterAt ==
    /\ Running("at")
    /\ \/ LeaveBy("out_of_range")
       \/ Proceed
    /\ UNCHANGED handles
    /\ traceFrame

\* a throw statement in a branch that is taken or not
Throw ==
    /\ Running("throw")
    /\ \/ LeaveBy(Statement.h)
       \/ Proceed
    /\ UNCHANGED handles
    /\ traceFrame

\* H5Gclose, H5Dclose, H5Oclose, H5Aclose, H5Tclose, H5Sclose
Release ==
    /\ Running("close")
    /\ handles' = handles \ {Statement.h}
    /\ Proceed
    /\ traceFrame

\* the end of the handler
Return ==
    /\ frame.handler \in TracedHandlers
    /\ ~frame.done
    /\ frame.at > Len(Statements(frame.handler))
    /\ frame' = [frame EXCEPT !.done = TRUE]
    /\ UNCHANGED <<handles, exc>>
    /\ traceFrame

NextHandles ==
    \/ Enter
    \/ Acquire
    \/ AssertHandle
    \/ AssertStatus
    \/ ParameterAt
    \/ Throw
    \/ Release
    \/ Return

SpecHandles == Init /\ [][NextHandles]_vars

\* ================================================================ claims
CreateOps == {"CREATE_FILE", "CREATE_PATH", "CREATE_DATASET"}
OpenOps == {"OPEN_FILE", "OPEN_PATH", "OPEN_DATASET"}

\* a handler call has raised (a crash of the process raises nothing)
Raised(e) == e \notin {"none", "crash"}

\* the step is one turn of the loop of flush()
DispatchStep == pc = "flush" /\ callLog' # callLog

\* C1: flush() dispatches the tasks in the order in which they were
\* enqueued.  The tasks in the queue carry consecutive ids in enqueue order,
\* and the ids dispatched so far by a call of flush() are, in order, the
\* first ids of the queue the call found.
C1_FifoOrder ==
    /\ \A k \in 1..(Len(m_work) - 1) : m_work[k + 1].id = m_work[k].id + 1
    /\ Len(callLog) <= Len(callQueue)
    /\ callLog = SubSeq(callQueue, 1, Len(callLog))

\* one call of flush() has dispatched two tasks or more
C1_Witness == pc = "flush" /\ Len(callLog) >= 2

\* C2: when flush() has returned to its caller because a handler raised, the
\* failed task is no longer in the queue.
C2_FailedTaskRemoved ==
    (pc = "idle" /\ result = "raised")
        => \A k \in 1..Len(m_work) : m_work[k].id # cur.id

\* C3: [A, B, C] where A is done and B raises: the flush() that follows the
\* one B failed in starts with C, the task enqueued behind B.
C3_SecondFlushStartsBehind ==
    (/\ pc = "flush" /\ result = "raised" /\ callLog = <<>>
     /\ cur.id >= 2
     /\ \E k \in 1..Len(m_work) : m_work[k].id > cur.id)
        => Head(m_work).id > cur.id

C5_ReturnDrainsQueue ==
    (pc = "idle" /\ result = "returned")
        => (m_work = <<>> /\ callLog = callQueue)

\* flush() has returned normally from a queue of two tasks or more
C5_Witness == pc = "idle" /\ result = "returned" /\ Len(callQueue) >= 2

\* C6: a handler that raises leaves written and the position of its target
\* node (of every node) as they were when it was called.
C6_RaiseLeavesNode ==
    [][Raised(exc') => (written' = written /\ position' = position)]_vars

\* a handler has raised on a node that is written and has a position
C6_Witness ==
    /\ Raised(exc)
    /\ cur.operation \in {"OPEN_FILE", "OPEN_DATASET", "DELETE_FILE"}
    /\ backendCalled
    /\ written[cur.writable]
    /\ position[cur.writable] # NoPosition

\* C7: CREATE_FILE that returns without raising has stored a valid file
\* handle for the node (a failure of H5Fcreate has been raised).
C7_NativeFailureSurfaces ==
    (cur.operation = "CREATE_FILE" /\ ~wasWritten /\ exc = "none")
        => /\ cur.writable \in DOMAIN m_fileIDs
           /\ m_fileIDs[cur.writable] >= 0
           /\ InvalidId \notin m_openFileIDs

\* C8: CREATE_* that returns without raising on a node that was not written
\* has created the entity and leaves the node written, with a non-empty
\* position and dirty == false.
C8_CreateSetsCleanWritten ==
    (cur.operation \in CreateOps /\ ~wasWritten /\ exc = "none")
        => /\ written[cur.writable]
           /\ position[cur.writable] \notin {NoPosition, <<>>}
           /\ ~dirty[cur.writable]
           /\ (cur.operation = "CREATE_FILE"
                  => FileName(cur.parameter.name) \in DOMAIN disk)

\* C9: CREATE_* on a node that is written calls nothing in the backend,
\* raises nothing and changes no node, no map entry, no open file and
\* nothing in storage.
C9_CreateOnWrittenIsNoOp ==
    [][(cur'.operation \in CreateOps /\ wasWritten'
            /\ written[cur'.writable])
        => /\ ~backendCalled'
           /\ exc' = "none"
           /\ UNCHANGED <<nodeVars, mapVars, storageVars>>]_vars

\* CREATE_* has been called on a node that was written
C9_Witness ==
    /\ cur.operation \in CreateOps
    /\ wasWritten
    /\ exc = "none"
    /\ written[cur.writable]
    /\ cur.writable \in DOMAIN m_fileIDs

\* the path or name with one leading '/' dropped and a trailing '/' ensured
Token(p) ==
    LET q == IF p # <<>> /\ Head(p) = "/" THEN Tail(p) ELSE p
    IN  IF q # <<>> /\ q[Len(q)] = "/" THEN q ELSE q \o <<"/">>

\* C10 as amended: OPEN_* is performed whether or not the node is written;
\* when it returns without raising the node is written, its position is "/"
\* for a file and the normalised path or name parameter for a group or a
\* dataset, and its map entry is the handle just opened for a file and the
\* handle of the parent node for a group or a dataset.
C10_OpenAssigns ==
    (cur.operation \in OpenOps)
        => /\ backendCalled
           /\ exc = "none" =>
                /\ written[cur.writable]
                /\ cur.writable \in DOMAIN m_fileIDs
                /\ IF cur.operation = "OPEN_FILE"
                   THEN /\ position[cur.writable] = <<"/">>
                        /\ m_fileIDs[cur.writable] \in DOMAIN h5_open
                        /\ h5_open[m_fileIDs[cur.writable]].name
                              = FileName(cur.parameter.name)
                   ELSE /\ position[cur.writable]
                              = Token(IF cur.operation = "OPEN_PATH"
                                      THEN cur.parameter.path
                                      ELSE cur.parameter.name)
                        /\ parent[cur.writable] \in DOMAIN m_fileIDs
                              => m_fileIDs[cur.writable]
                                    = m_fileIDs[parent[cur.writable]]

\* OPEN_PATH or OPEN_DATASET has succeeded on a node that was written
C10_Witness ==
    /\ cur.operation \in {"OPEN_PATH", "OPEN_DATASET"}
    /\ wasWritten
    /\ exc = "none"
    /\ written[cur.writable]
    /\ m_fileIDs[cur.writable] \in DOMAIN h5_open

\* C10 as stated: the position assigned by every OPEN_* is taken from the
\* name or path parameter of the operation.
C10_TokenFromParameter ==
    (cur.operation \in OpenOps /\ exc = "none")
        => /\ written[cur.writable]
           /\ position[cur.writable]
                 = Token(IF cur.operation = "OPEN_PATH"
                         THEN cur.parameter.path ELSE cur.parameter.name)

DeleteOps == {"DELETE_FILE", "DELETE_PATH", "DELETE_DATASET", "DELETE_ATT"}

\* C11: EXTEND_DATASET on a node that is not written raises before any
\* lookup in the maps and any native call, and changes no node, no map and
\* nothing in storage.
C11_ExtendUnwrittenRaises ==
    [][(cur'.operation = "EXTEND_DATASET" /\ ~wasWritten'
            /\ ~written[cur'.writable])
        => /\ Raised(exc')
           /\ ~backendCalled'
           /\ UNCHANGED <<nodeVars, mapVars, storageVars>>]_vars

\* EXTEND_DATASET has been called on a node that was not written, in a state
\* where the file is open and holds the dataset
C11_Witness ==
    /\ cur.operation = "EXTEND_DATASET"
    /\ ~wasWritten
    /\ exc = "runtime_error"
    /\ written[parent[cur.writable]]
    /\ h5_open # EmptyMap

\* C12: under read-only access every DELETE_* raises before any backend
\* call, whether the node is written or not, and changes no node, no map
\* and nothing in storage.
C12_ReadOnlyDeleteRaises ==
    [][(cur'.operation \in DeleteOps /\ accessType = "READ_ONLY"
            /\ wasWritten' = written[cur'.writable])
        => /\ Raised(exc')
           /\ ~backendCalled'
           /\ UNCHANGED <<nodeVars, mapVars, storageVars>>]_vars

\* DELETE_* has been called under read-only access on a written node
C12_Witness ==
    /\ cur.operation \in DeleteOps
    /\ accessType = "READ_ONLY"
    /\ wasWritten
    /\ Raised(exc)

\* C13: DELETE_FILE, DELETE_PATH or DELETE_DATASET that returns without
\* raising on a node that was written leaves the node not written, without
\* position and without entry in m_fileIDs (so the test of written of a later
\* CREATE_* on the node lets the creation run again).
C13_DeleteResetsNode ==
    (/\ cur.operation \in {"DELETE_FILE", "DELETE_PATH", "DELETE_DATASET"}
     /\ wasWritten
     /\ exc = "none")
        => /\ accessType # "READ_ONLY"
           /\ ~written[cur.writable]
           /\ position[cur.writable] = NoPosition
           /\ cur.writable \notin DOMAIN m_fileIDs

\* a DELETE_FILE has removed the file of a written node
C13_Witness ==
    /\ cur.operation = "DELETE_FILE"
    /\ wasWritten
    /\ exc = "none"
    /\ ~written[cur.writable]
    /\ FileName(cur.parameter.name) \notin DOMAIN disk

\* C14: every node is written exactly when it has a position.
C14_WrittenIffPosition ==
    \A n \in Nodes : written[n] <=> position[n] # NoPosition

\* a node has been created and deleted again while another one is written
C14_Witness ==
    /\ cur.operation \in {"DELETE_PATH", "DELETE_DATASET"}
    /\ wasWritten
    /\ exc = "none"
    /\ ~written[cur.writable]
    /\ written[1]

\* C15: CREATE_DATASET with the datatype UNDEFINED on a node that is not
\* written raises (the undefined type is not replaced by another one and no
\* dataset is created).  Stated for the case in which nothing else can go
\* unnoticed: a build with DEBUG, the parent node registered in m_fileIDs.
C15_UndefinedNeverStored ==
    (/\ cur.operation = "CREATE_DATASET"
     /\ ~wasWritten
     /\ "dtype" \in DOMAIN cur.parameter
     /\ cur.parameter.dtype = "UNDEFINED"
     /\ DEBUG
     /\ parent[cur.writable] \in DOMAIN m_fileIDs)
        => /\ Raised(exc)
           /\ ~written[cur.writable]

\* the parameters each handler takes out of the ArgumentMap
RequiredKeys(operation) ==
    CASE operation \in {"CREATE_FILE", "OPEN_FILE", "DELETE_FILE"} -> {"name"}
      [] operation \in {"CREATE_PATH", "OPEN_PATH", "DELETE_PATH"} -> {"path"}
      [] operation = "CREATE_DATASET" -> {"name"} \cup DatasetKeys
      [] operation = "EXTEND_DATASET" -> {"name", "extent"}
      [] operation = "OPEN_DATASET" -> {"name", "dtype", "extent"}
      [] operation \in {"DELETE_DATASET", "DELETE_ATT"} -> {"name"}
      [] operation = "READ_ATT" -> {"name", "dtype", "resource"}
      [] OTHER -> {}

\* C20: a handler called with one of its parameters missing raises, whether
\* the node is written or not.
C20_MissingParameterRaises ==
    ~(RequiredKeys(cur.operation) \subseteq DOMAIN cur.parameter)
        => Raised(exc)

\* the tag of an Attribute names the type of the value it holds
TagMatchesValue(att) == att.dtype = att.resource.type

\* C16: the declared datatype tag of every Attribute matches the type of
\* the value it holds, the Attributes the handlers build to look up a native
\* type included.  A CREATE_DATASET that has come to its end, every native
\* call checked, has built the Attribute of its dtype parameter.
C16_TagMatchesValue ==
    (/\ cur.operation = "CREATE_DATASET"
     /\ ~wasWritten
     /\ DEBUG
     /\ exc = "none")
        => TagMatchesValue(LookupAttribute(cur.parameter.dtype))

\* C17: a WRITE_ATT of (name, v, T) followed by a READ_ATT of the same name
\* on the same node fills the output slots with the tag T and the value v.
\* Stated of the builds that check every native call, where a WRITE_ATT that
\* returned has written.
C17_WriteReadRoundTrip ==
    [][(/\ cur.operation = "WRITE_ATT"
        /\ exc = "none"
        /\ DEBUG
        /\ cur'.operation = "READ_ATT"
        /\ cur'.writable = cur.writable
        /\ cur'.parameter.name = cur.parameter.name)
           => /\ exc' = "none"
              /\ out' = [dtype |-> cur.parameter.dtype,
                         resource |-> cur.parameter.attribute.val]]_vars

\* C19: end to end.  Once the writer's five tasks have been flushed, the
\* file, the path and the dataset are written; the reader's READ_DATASET
\* returns the four elements that were written and its READ_ATT returns the
\* attribute u as the string "meters".
C19_EndToEnd ==
    /\ (instance = 0 /\ pc = "idle" /\ m_work = <<>>
        /\ enqueued = Len(WriterTasks))
           => \A n \in Nodes : written[n]
    /\ (cur.operation = "READ_DATASET" /\ exc = "none")
           => out = [data |-> FourDoubles]
    /\ (cur.operation = "READ_ATT" /\ exc = "none")
           => out = [dtype |-> "STRING", resource |-> <<"meters">>]

C19_Witness ==
    /\ instance = 1
    /\ cur.id = Len(ScenarioTasks)
    /\ cur.operation = "READ_ATT"
    /\ exc = "none"
    /\ out = [dtype |-> "STRING", resource |-> <<"meters">>]
    /\ \A n \in Nodes : written[n]

C21_HandlesReleased ==
    frame.done => handles = {}

C21_Witness ==
    /\ frame.handler = "readAttribute"
    /\ frame.done
    /\ exc = "unsupported_data_error"
    /\ handles = {"obj_id", "attr_id", "attr_type", "attr_space"}

\* C22: every file handle obtained by CREATE_FILE or OPEN_FILE is closed
\* exactly once: the destructor closes no identifier of the library that has
\* been closed before, and no file is open after it.
C22_ClosedExactlyOnce ==
    [][instance' # instance =>
        /\ \A id \in m_openFileIDs \cap Hids : id \in DOMAIN h5_open
        /\ DOMAIN h5_open' = {}]_vars

\* DELETE_FILE has closed the file and raised; the identifier is still in
\* m_openFileIDs
C22_Witness ==
    /\ cur.operation = "DELETE_FILE"
    /\ exc = "runtime_error"
    /\ accessType = "READ_WRITE"
    /\ \E id \in m_openFileIDs \cap Hids : id \notin DOMAIN h5_open

\* C23: WRITE_DATASET and WRITE_ATT, whether they succeed or raise, change
\* the written flag, the dirty flag and the position of no node.
C23_WritesLeaveNodes ==
    [][cur'.operation \in {"WRITE_DATASET", "WRITE_ATT"} =>
        UNCHANGED <<written, dirty, position>>]_vars

\* both writes have happened: the dataset holds the four doubles and its
\* attribute is stored
C23_Witness ==
    /\ cur.operation \in {"WRITE_DATASET", "WRITE_ATT"}
    /\ exc = "none"
    /\ \E f \in DOMAIN disk :
        /\ \E o \in disk[f].objs : o.kind = "dataset" /\ o.data = FourDoubles
        /\ \E a \in disk[f].atts : a.name = "u"

\* the operations that only read
ReadOps == {"READ_DATASET", "READ_ATT", "LIST_PATHS", "LIST_DATASETS", "LIST_ATTS"}

\* C24: READ_DATASET, READ_ATT, LIST_PATHS, LIST_DATASETS and LIST_ATTS
\* change no node's written flag or position, no entry of m_fileIDs and
\* nothing in storage.
C24_ReadsChangeNothing ==
    [][cur'.operation \in ReadOps =>
        UNCHANGED <<written, position, m_fileIDs, dirExists, disk, h5_open>>]_vars

\* READ_DATASET has filled its slot with the four doubles written before
C24_Witness ==
    /\ cur.operation = "READ_DATASET"
    /\ exc = "none"
    /\ out = [data |-> FourDoubles]

\* the handlers that resolve the storage location of their node through
\* m_fileIDs whenever they are called
ResolvingOps == {"WRITE_DATASET", "WRITE_ATT"} \cup ReadOps

\* the nearest registered node among a node and its ancestors, NULL when
\* there is none
RECURSIVE NearestRegistered(_)
NearestRegistered(n) ==
    IF n = NULL THEN NULL
    ELSE IF n \in DOMAIN m_fileIDs THEN n
    ELSE NearestRegistered(parent[n])

\* C25: a handler called for a node without a registration of its own
\* resolves the location through the nearest registered ancestor at any
\* depth, and raises when no ancestor is registered (in a build with DEBUG,
\* where a failed native call is reported).
C25_ResolvesThroughAncestors ==
    [][DEBUG /\ cur'.operation \in ResolvingOps =>
        LET a == NearestRegistered(cur'.writable)
        IN  IF a # NULL
            THEN ResOwnOrParent(cur'.writable) = {m_fileIDs[a]}
            ELSE Raised(exc')]_vars

\* a handler is called for the dataset node while only the file node, two
\* levels above it, is registered, and in a build with DEBUG it raises
C25_Witness ==
    /\ DEBUG
    /\ cur.operation \in ResolvingOps
    /\ cur.writable = 3
    /\ DOMAIN m_fileIDs = {1}
    /\ m_fileIDs[1] \in DOMAIN h5_open
    /\ exc = "runtime_error"

\* C26: OPEN_FILE raises no_such_file_error when the directory does not
\* exist or the named file is not there; it returns normally only with the
\* file open; and when it raises no_such_file_error the written flags, the
\* positions, m_fileIDs and m_openFileIDs are as they were.
C26_OpenFileNoSuchFile ==
    [][(/\ instance' = instance
        /\ cur'.operation = "OPEN_FILE"
        /\ "name" \in DOMAIN cur'.parameter) =>
        /\ (~dirExists \/ FileName(cur'.parameter.name) \notin DOMAIN disk)
              => exc' = "no_such_file_error"
        /\ exc' = "none"
              => /\ cur'.writable \in DOMAIN m_fileIDs'
                 /\ m_fileIDs'[cur'.writable] \in DOMAIN h5_open'
        /\ exc' \in {"none", "no_such_file_error"}
        /\ exc' = "no_such_file_error"
              => UNCHANGED <<written, position, m_fileIDs, m_openFileIDs>>]_vars

\* OPEN_FILE of a file that is not there has raised on a node that holds an
\* open file
C26_Witness ==
    /\ cur.operation = "OPEN_FILE"
    /\ exc = "no_such_file_error"
    /\ dirExists
    /\ FileName(cur.parameter.name) \notin DOMAIN disk
    /\ written[cur.writable]
    /\ m_fileIDs[cur.writable] \in DOMAIN h5_open

\* the attribute a READ_ATT task names, when its node holds an open file
\* and is the root group of it
StoredAttribute(t) ==
    IF /\ t.writable \in DOMAIN m_fileIDs
       /\ m_fileIDs[t.writable] \in DOMAIN h5_open
       /\ position[t.writable] = Slash
       /\ "name" \in DOMAIN t.parameter
    THEN {a \in disk[h5_open[m_fileIDs[t.writable]].name].atts :
             a.path = <<>> /\ a.name = t.parameter.name}
    ELSE {}

SupportedTransfers ==
    {"CHAR", "UCHAR", "INT16", "INT32", "INT64", "UINT16", "UINT32", "UINT64",
     "FLOAT", "DOUBLE", "BOOL"}

\* C28: WRITE_DATASET and READ_DATASET with a datatype outside the supported
\* scalar set raise, store nothing and fill no slot.
C28_UnsupportedTransfer ==
    [][(/\ cur'.operation \in {"WRITE_DATASET", "READ_DATASET"}
        /\ "dtype" \in DOMAIN cur'.parameter
        /\ cur'.parameter.dtype \notin SupportedTransfers) =>
        /\ Raised(exc')
        /\ disk' = disk
        /\ out' = EmptyMap]_vars

\* a transfer of long doubles has been refused on a dataset that exists in
\* an open file
C28_Witness ==
    /\ cur.operation \in {"WRITE_DATASET", "READ_DATASET"}
    /\ cur.parameter.dtype = "LONG_DOUBLE"
    /\ exc = "runtime_error"
    /\ 3 \in DOMAIN m_fileIDs
    /\ m_fileIDs[3] \in DOMAIN h5_open
    /\ \E o \in disk[h5_open[m_fileIDs[3]].name].objs : o.kind = "dataset"

\* the member function that bears the name of an operation
SameName(op) ==
    CASE op = "CREATE_FILE" -> "createFile"
      [] op = "CREATE_PATH" -> "createPath"
      [] op = "CREATE_DATASET" -> "createDataset"
      [] op = "EXTEND_DATASET" -> "extendDataset"
      [] op = "OPEN_FILE" -> "openFile"
      [] op = "OPEN_PATH" -> "openPath"
      [] op = "OPEN_DATASET" -> "openDataset"
      [] op = "DELETE_FILE" -> "deleteFile"
      [] op = "DELETE_PATH" -> "deletePath"
      [] op = "DELETE_DATASET" -> "deleteDataset"
      [] op = "DELETE_ATT" -> "deleteAttribute"
      [] op = "WRITE_DATASET" -> "writeDataset"
      [] op = "WRITE_ATT" -> "writeAttribute"
      [] op = "READ_DATASET" -> "readDataset"
      [] op = "READ_ATT" -> "readAttribute"
      [] op = "LIST_PATHS" -> "listPaths"
      [] op = "LIST_DATASETS" -> "listDatasets"
      [] op = "LIST_ATTS" -> "listAttributes"

\* C29: every turn of the loop of flush() is a call of the member function
\* that bears the name of the operation of the task at the front, on the
\* node and the parameters of that task; and a task leaves the queue only in
\* such a turn, from the front.
C29_DispatchTotal ==
    [][/\ DispatchStep =>
            /\ cur' = Head(m_work)
            /\ Invoke(SameName(Head(m_work).operation),
                      Head(m_work).writable, Head(m_work).parameter)
       /\ Len(m_work') < Len(m_work) =>
            /\ DispatchStep
            /\ m_work' = Tail(m_work)]_vars

\* the last of the 18 operations has been dispatched and has succeeded
C29_Witness ==
    /\ cur.id = Len(AllOperations)
    /\ cur.operation = "CREATE_DATASET"
    /\ exc = "none"
    /\ m_work = <<>>
    /\ \A n \in Nodes : written[n]

C31_ReadOnlyLeavesStorage ==
    [][accessType = "READ_ONLY" => disk' = disk]_vars

\* CREATE_FILE under read-only access has returned normally and the file of
\* that name is empty
C31_Witness ==
    /\ accessType = "READ_ONLY"
    /\ cur.operation = "CREATE_FILE"
    /\ exc = "none"
    /\ FileName(<<"r">>) \in DOMAIN disk
    /\ disk[FileName(<<"r">>)] = EmptyFile

\* the storage entity of a node exists: a file on disk holds an object at
\* the location the positions of the node and of its ancestors name (the
\* root group for a file node)
EntityExists(files, pos, n) ==
    \E f \in DOMAIN files :
        AnyObjExists(files[f], split(concrete_h5_file_position(pos, n), Slash))

WrittenExist(files, wr, pos) ==
    \A n \in Nodes : wr[n] => EntityExists(files, pos, n)

\* C32: the storage entity of every written node exists, in every reachable
\* state: a DELETE_* operation called where that is so leaves it so (in a
\* build with DEBUG, where no failed native call goes unreported).
C32_WrittenExists ==
    [][(/\ DEBUG
        /\ cur'.operation \in DeleteOps
        /\ WrittenExist(disk, written, position)) =>
        WrittenExist(disk', written', position')]_vars

\* DELETE_FILE has removed the file and a node below it is still written
C32_Witness ==
    /\ DEBUG
    /\ cur.operation = "DELETE_FILE"
    /\ exc = "none"
    /\ disk = EmptyMap
    /\ ~written[1]
    /\ written[2]

\* every identifier in the two maps is open
HandlesOpen(ids, openIds, open) ==
    /\ \A n \in DOMAIN ids : ids[n] \in DOMAIN open
    /\ openIds \subseteq DOMAIN open

\* C33: in every reachable state every identifier in m_fileIDs and in
\* m_openFileIDs is open: a DELETE_FILE called where that is so leaves it so,
\* whether it succeeds or fails (in a build with DEBUG).
C33_StoredHandlesOpen ==
    [][(/\ DEBUG
        /\ cur'.operation = "DELETE_FILE"
        /\ HandlesOpen(m_fileIDs, m_openFileIDs, h5_open)) =>
        HandlesOpen(m_fileIDs', m_openFileIDs', h5_open')]_vars

\* DELETE_FILE has succeeded and the node below the file node still maps to
\* the identifier that was closed
C33_Witness ==
    /\ DEBUG
    /\ cur.operation = "DELETE_FILE"
    /\ exc = "none"
    /\ 1 \notin DOMAIN m_fileIDs
    /\ 2 \in DOMAIN m_fileIDs
    /\ m_fileIDs[2] \notin DOMAIN h5_open

\* C34: DELETE_FILE, DELETE_PATH, DELETE_DATASET and DELETE_ATT on a node
\* that is not written, under an access type other than read-only, return
\* without raising and without a backend call, and change no node, no map
\* and nothing in storage.
C34_DeleteUnwrittenIsNoOp ==
    [][(/\ cur'.operation \in DeleteOps
        /\ accessType # "READ_ONLY"
        /\ ~written[cur'.writable]) =>
        /\ exc' = "none"
        /\ ~backendCalled'
        /\ UNCHANGED <<nodeVars, mapVars, storageVars>>]_vars

\* DELETE_PATH or DELETE_DATASET has returned on a node that is not written,
\* below a file that is open
C34_Witness ==
    /\ cur.operation \in {"DELETE_PATH", "DELETE_DATASET"}
    /\ accessType = "READ_WRITE"
    /\ ~wasWritten
    /\ ~written[cur.writable]
    /\ exc = "none"
    /\ written[1]
    /\ h5_open # EmptyMap

\* C35: DELETE_ATT leaves the written flag, the position and the m_fileIDs
\* entry of every node as they were, and takes nothing out of storage but
\* attributes of the name it was given.
C35_DeleteAttKeepsNode ==
    [][cur'.operation = "DELETE_ATT" =>
        /\ UNCHANGED <<written, position, m_fileIDs>>
        /\ DOMAIN disk' = DOMAIN disk
        /\ \A f \in DOMAIN disk :
              /\ disk'[f].objs = disk[f].objs
              /\ disk'[f].atts \subseteq disk[f].atts
              /\ \A a \in disk[f].atts \ disk'[f].atts :
                    /\ "name" \in DOMAIN cur'.parameter
                    /\ a.name = cur'.parameter.name]_vars

\* DELETE_ATT has removed the attribute u and its node is still written,
\* has its position and maps to the open file
C35_Witness ==
    /\ cur.operation = "DELETE_ATT"
    /\ exc = "none"
    /\ backendCalled
    /\ written[cur.writable]
    /\ position[cur.writable] # NoPosition
    /\ cur.writable \in DOMAIN m_fileIDs
    /\ m_fileIDs[cur.writable] \in DOMAIN h5_open
    /\ LET f == h5_open[m_fileIDs[cur.writable]].name
       IN  /\ f \in DOMAIN disk
           /\ disk[f].objs # {}
           /\ ~\E a \in disk[f].atts : a.name = "u"

\* C36: a step changes the written flag and the position of no node but the
\* target of the task it runs; the nodes the handler reaches through the
\* parent reference keep both.
C36_OnlyTargetChanges ==
    [][\A n \in Nodes :
          (written'[n] # written[n] \/ position'[n] # position[n]) =>
              n = cur'.writable]_vars

\* OPEN_PATH has marked the group below the root written and given it its
\* position, resolving through the root, which keeps the position OPEN_FILE
\* gave it; the dataset below is untouched
C36_Witness ==
    /\ cur.operation = "OPEN_PATH"
    /\ exc = "none"
    /\ parent[cur.writable] = 1
    /\ written[cur.writable]
    /\ position[cur.writable] = sanitizePath(cur.parameter.path)
    /\ written[1]
    /\ position[1] = <<"/">>
    /\ ~written[3]
    /\ position[3] = NoPosition

\* ------------------------------------------- flush() and the destructor,
\* statement by statement, run to completion
TerminationInputs ==
    {Task("CREATE_FILE", 1, [name |-> <<"r">>]),
     Task("OPEN_FILE", 1, [name |-> <<"r">>]),
     Task("READ_ATT", 1, [name |-> "c", dtype |-> "slot", resource |-> "slot"])}

Term_Enqueue == instance = 0 /\ EnqueueOn(TerminationInputs) /\ instance' = instance
Term_FlushCall == instance = 0 /\ FlushCall

\* one turn of the while loop of flush(), whatever the task at the front
FlushLoop == \E op \in {"CREATE_FILE", "OPEN_FILE", "READ_ATT"} : Dispatch(op)

\* entry into ~HDF5IOHandlerImpl: H5Tclose(m_H5T_BOOL_ENUM)
DestructorEnter ==
    /\ pc = "idle"
    /\ instance = 0
    /\ pc' = "destructor"
    /\ UNCHANGED <<m_work, nodeVars, mapVars, storageVars, configVars, traceVars,
                   handlerVars, result, cur, enqueued, callQueue, callLog>>

\* m_openFileIDs.begin(): the least element of the std::set
begin(ids) == CHOOSE i \in ids : \A j \in ids : i <= j

\* variant: the identifier is closed and stays in the set
DestructorLoop_keeps ==
    /\ pc = "destructor"
    /\ m_openFileIDs # {}
    /\ LET file == begin(m_openFileIDs)
       IN  /\ h5_open' = H5Fclose(h5_open, {file})
           /\ m_openFileIDs' = m_openFileIDs
    /\ UNCHANGED <<m_work, nodeVars, m_fileIDs, dirExists, disk, configVars,
                   traceVars, handlerVars, pc, result, cur, enqueued, callQueue,
                   callLog>>

\* one turn of the while loop of the destructor: H5Fclose(*file), then
\* m_openFileIDs.erase(file); a failed close is reported and goes on
DestructorLoop ==
    /\ pc = "destructor"
    /\ m_openFileIDs # {}
    /\ LET file == begin(m_openFileIDs)
       IN  /\ h5_open' = H5Fclose(h5_open, {file})
           /\ m_openFileIDs' = m_openFileIDs \ {file}
    /\ UNCHANGED <<m_work, nodeVars, m_fileIDs, dirExists, disk, configVars,
                   traceVars, handlerVars, pc, result, cur, enqueued, callQueue,
                   callLog>>

\* the while condition fails: the property lists are closed and the
\* destructor returns
DestructorExit ==
    /\ pc = "destructor"
    /\ m_openFileIDs = {}
    /\ pc' = "destroyed"
    /\ instance' = 1
    /\ UNCHANGED <<m_work, nodeVars, mapVars, storageVars, accessType, DEBUG,
                   traceVars, handlerVars, result, cur, enqueued, callQueue,
                   callLog>>

NextTermination ==
    \/ Term_Enqueue
    \/ Term_FlushCall
    \/ FlushLoop
    \/ FlushReturn
    \/ DestructorEnter
    \/ DestructorLoop
    \/ DestructorExit

\* flush() and the destructor are sequential loops: once entered, the
\* thread that called them takes their next statement
SpecTermination ==
    /\ Init
    /\ [][NextTermination]_vars
    /\ WF_vars(FlushLoop)
    /\ WF_vars(FlushReturn)
    /\ WF_vars(DestructorLoop)
    /\ WF_vars(DestructorExit)

\* C37: a call of flush() that found n tasks in the queue invokes at most n
\* handlers and then returns or raises; the destructor, once entered, ends
\* with m_openFileIDs empty, and each turn of its loop closes one identifier
\* of the set and takes that identifier, and no other, out of the set.
C37_Terminates ==
    /\ [](pc = "flush" => Len(callLog) <= Len(callQueue))
    /\ (pc = "flush") ~> (pc = "idle" /\ result \in {"returned", "raised"}
                          /\ Len(callLog) <= Len(callQueue))
    /\ (pc = "destructor") ~> (pc = "destroyed" /\ m_openFileIDs = {})
    /\ [][pc = "destructor" /\ pc' = "destructor" =>
            \E file \in m_openFileIDs :
                /\ m_openFileIDs' = m_openFileIDs \ {file}
                /\ file \notin DOMAIN h5_open'
                /\ \A i \in (DOMAIN h5_open) \ {file} : i \in DOMAIN h5_open']_vars

\* the destructor has returned after a flush() of two tasks and its loop
\* has closed the file the handler held
C37_Witness ==
    /\ pc = "destroyed"
    /\ m_openFileIDs = {}
    /\ h5_open = EmptyMap
    /\ m_fileIDs # EmptyMap
    /\ result = "returned"
    /\ Len(callLog) = 2
    /\ Len(callQueue) = 2

\* ------------------------------------ the create and open handlers one at
\* a time, on several spellings of the same path and dataset name
PathSpellings == {<<"d">>, <<"/", "d", "/">>, <<"d", "/", "g">>}
NameSpellings ==
    {<<"x">>, <<"/", "x">>, <<"y", "/">>, <<"/", "y", "/">>,
     <<"g", "/", "y">>, <<"g", "/", "y", "/">>}

NameInputs ==
    {Task(o, 1, [name |-> <<"r">>]) : o \in {"CREATE_FILE", "OPEN_FILE"}}
    \cup {Task(o, 2, [path |-> p]) : o \in {"CREATE_PATH", "OPEN_PATH"},
                                    p \in PathSpellings}
    \cup {Task("CREATE_DATASET", 3, DatasetParameter(n, "DOUBLE")) : n \in NameSpellings}
    \cup {Task("OPEN_DATASET", 3, [name |-> n, dtype |-> "slot", extent |-> "slot"]) :
            n \in NameSpellings}

Name_CREATE_FILE == CallOn(NameInputs, "CREATE_FILE")
Name_CREATE_PATH == CallOn(NameInputs, "CREATE_PATH")
Name_CREATE_DATASET == CallOn(NameInputs, "CREATE_DATASET")
Name_OPEN_FILE == CallOn(NameInputs, "OPEN_FILE")
Name_OPEN_PATH == CallOn(NameInputs, "OPEN_PATH")
Name_OPEN_DATASET == CallOn(NameInputs, "OPEN_DATASET")

NextNames ==
    \/ Name_CREATE_FILE
    \/ Name_CREATE_PATH
    \/ Name_CREATE_DATASET
    \/ Name_OPEN_FILE
    \/ Name_OPEN_PATH
    \/ Name_OPEN_DATASET

SpecNames == Init /\ [][NextNames]_vars

\* the name without one leading and without one trailing '/'
StripOne(name) ==
    LET a == IF name # <<>> /\ Head(name) = "/" THEN Tail(name) ELSE name
    IN  IF a # <<>> /\ a[Len(a)] = "/" THEN SubSeq(a, 1, Len(a) - 1) ELSE a

\* the dataset the links of the name lead to from the parent group exists
DatasetOfName(files, pos, n, name) ==
    \E f \in DOMAIN files :
        ObjExists(files[f],
                  split(concrete_h5_file_position(pos, parent[n]), Slash)
                      \o split(name, Slash),
                  "dataset")

\* C38: a CREATE_DATASET that succeeds below a written group stores as the
\* position of its node the name parameter without one leading and without
\* one trailing '/', every other character kept, and the dataset of that
\* name is in storage.
C38_NameNormalized ==
    [][(/\ DEBUG
        /\ cur'.operation = "CREATE_DATASET"
        /\ ~written[cur'.writable]
        /\ parent[cur'.writable] \in DOMAIN m_fileIDs
        /\ written[parent[cur'.writable]]
        /\ exc' = "none") =>
        /\ position'[cur'.writable] = StripOne(cur'.parameter.name)
        /\ DatasetOfName(disk', position', cur'.writable,
                     StripOne(cur'.parameter.name))]_vars

\* CREATE_DATASET of g/y below the group d has created the dataset d/g/y and
\* the node holds the name with its interior '/'
C38_Witness ==
    /\ DEBUG
    /\ cur.operation = "CREATE_DATASET"
    /\ cur.parameter.name = <<"g", "/", "y">>
    /\ ~wasWritten
    /\ exc = "none"
    /\ position[3] = <<"g", "/", "y">>
    /\ DatasetOfName(disk, position, 3, <<"g", "/", "y">>)

CreateOpenPairs ==
    {<<"CREATE_FILE", "OPEN_FILE">>, <<"CREATE_PATH", "OPEN_PATH">>,
     <<"CREATE_DATASET", "OPEN_DATASET">>}

\* the name or path parameter of a task
NameOf(t) ==
    IF "path" \in DOMAIN t.parameter THEN t.parameter.path
    ELSE IF "name" \in DOMAIN t.parameter THEN t.parameter.name
    ELSE <<>>

\* C39: an OPEN_* that succeeds on the node a CREATE_* of the same kind has
\* just created below a written parent, with the same name or path
\* parameter, leaves the node the position the CREATE_* gave it.
C39_SamePosition ==
    [][(/\ DEBUG
        /\ <<cur.operation, cur'.operation>> \in CreateOpenPairs
        /\ cur'.writable = cur.writable
        /\ NameOf(cur') = NameOf(cur)
        /\ \A n \in Nodes : n = parent[cur.writable] =>
                                written[n] /\ n \in DOMAIN m_fileIDs
        /\ ~wasWritten /\ backendCalled /\ exc = "none"
        /\ exc' = "none") =>
        position'[cur.writable] = position[cur.writable]]_vars

\* OPEN_PATH of d on the node CREATE_PATH of d has created: the position is
\* d/ after both
C39_Witness ==
    /\ DEBUG
    /\ cur.operation = "OPEN_PATH"
    /\ cur.parameter.path = <<"d">>
    /\ exc = "none"
    /\ position[2] = <<"d", "/">>
    /\ \E f \in DOMAIN disk : disk[f].objs = {Group(<<<<"d">>>>)}

====
